---- MODULE Spec2Model ----
(***************************************************************************)
(* The interpreter store of tabella (src/src/lib/interpreter.ts): parser,  *)
(* program loader and stepped execution engine, with the maze generator    *)
(* (src/src/App.tsx, generateMaze) that MAZE mode draws its state from.    *)
(*                                                                         *)
(* Source text is modelled by its token structure: a program is a sequence *)
(* of lines, a line a record naming the fields the regular expressions of  *)
(* parseLine capture.  Rows, columns and the program counter are 0-based   *)
(* as in the source; TLA+ sequences are 1-based, hence the "+ 1" in every  *)
(* index.  An optional value (T | null) is None or Some(v).                *)
(***************************************************************************)
EXTENDS Integers, Sequences, FiniteSets, TLC

\* ------------------------------------------------------------------ bounds
\* Lines of the program texts built from a mode's sample lines.
MaxLines == 2
\* Side of the maze; the source runs generateMaze(16, 16) and tests ">= 16".
MazeDim == 4
\* step() calls in a row that the environment makes before another operation.
MaxSteps == 3

\* ------------------------------------------------------- program constants
MAX_ROWS == 16
MAX_COLS == 16
MatrixDim == 8
PixelDim == 16

\* ---------------------------------------------------------------- options
None == <<>>
Some(v) == <<v>>
Get(o) == o[1]

Abs(n) == IF n < 0 THEN -n ELSE n
Min(a, b) == IF a < b THEN a ELSE b

\* ------------------------------------------------------------------ grids
\* A cell holds a colour or "null" (unlit).
Unlit == "null"

createEmptyGrid(rows, cols) == [r \in 1..rows |-> [c \in 1..cols |-> Unlit]]

GridRows(g) == Len(g)
GridCols(g) == Len(g[1])
CellAt(g, r, c) == g[r + 1][c + 1]
SetCell(g, r, c, color) == [g EXCEPT ![r + 1][c + 1] = color]

\* ------------------------------------------------------------ source lines
DimLine(rows, cols) == [kind |-> "dim", rows |-> rows, cols |-> cols]
PaintLine(count, color, a, b) ==
    [kind |-> "paint", count |-> count, color |-> color, a |-> a, b |-> b]
RuotaLine(n) == [kind |-> "ruota", n |-> n]
MuoviLine(n) == [kind |-> "muovi", n |-> n]
ToggleLine(op, target) == [kind |-> "toggle", op |-> op, target |-> target]
PixelLine(toks) == [kind |-> "pixel", toks |-> toks]
BlankLine == [kind |-> "blank"]
JunkLine == [kind |-> "junk"]

\* Tokens of a PIXEL line: a run of colour letters, OFF, the separator "+",
\* a loop "N * ( body )", a loop whose parenthesis never closes, a word that
\* is no colour.
Rgb(letters) == [t |-> "rgb", letters |-> letters]
Off == [t |-> "off"]
Plus == [t |-> "plus"]
Loop(n, body) == [t |-> "loop", count |-> n, body |-> body]
OpenLoop(n) == [t |-> "openloop", count |-> n]
Word == [t |-> "word"]

\* ------------------------------------------------------------------ errors
Err(text, line) == Some([text |-> text, line |-> line])

\* Faulty variant of SyntaxError: the message names the index of the line.
SyntaxErrorAtIndex(lineNumber, what) == Err(what, lineNumber)

SyntaxError(lineNumber, what) == Err(what, lineNumber + 1)

\* --------------------------------------------------------------- commands
StartCommand(rows, cols, ln) ==
    [type |-> "START", rows |-> rows, cols |-> cols, lineNumber |-> ln]
ColorCommand(count, color, row, col, ln) ==
    [type |-> "COLOR", count |-> count, color |-> color, row |-> row,
     col |-> col, lineNumber |-> ln]
GridColorCommand(count, color, dx, dy, ln) ==
    [type |-> "GRID_COLOR", count |-> count, color |-> color, deltaX |-> dx,
     deltaY |-> dy, lineNumber |-> ln]
RuotaCommand(degrees, ln) ==
    [type |-> "RUOTA", degrees |-> degrees, lineNumber |-> ln]
MuoviCommand(steps, ln) ==
    [type |-> "MUOVI", steps |-> steps, lineNumber |-> ln]
MatrixCommand(op, isRow, index, ln) ==
    [type |-> "MATRIX", operation |-> op, isRow |-> isRow, index |-> index,
     lineNumber |-> ln]
PixelPaint(color, ln) ==
    [type |-> "PIXEL_CMD", action |-> "PAINT", color |-> color, lineNumber |-> ln]
PixelSkip(ln) ==
    [type |-> "PIXEL_CMD", action |-> "SKIP", lineNumber |-> ln]
PixelLoop(n, cmds, ln) ==
    [type |-> "PIXEL_CMD", action |-> "LOOP", loopCount |-> n,
     loopCommands |-> cmds, lineNumber |-> ln]

\* ------------------------------------------------------------------ parser
getMixedColor(letters) ==
    IF {"R", "G", "B"} \subseteq letters THEN "W"
    ELSE IF {"R", "G"} \subseteq letters THEN "Y"
    ELSE IF {"G", "B"} \subseteq letters THEN "C"
    ELSE IF {"R", "B"} \subseteq letters THEN "M"
    ELSE IF "R" \in letters THEN "R"
    ELSE IF "G" \in letters THEN "G"
    ELSE "B"

\* The result of a parse: the commands, or the error thrown.
Parsed(cmds) == [error |-> None, cmds |-> cmds]
Thrown(e) == [error |-> e, cmds |-> <<>>]

RECURSIVE parsePixelSequence(_, _)
parsePixelSequence(toks, lineNumber) ==
    IF toks = <<>> THEN Parsed(<<>>)
    ELSE
      LET tok == Head(toks)
          rest == parsePixelSequence(Tail(toks), lineNumber)
          \* the scanner throws at the first bad token, before it reads on
          Then(cmds) == IF rest.error # None THEN rest
                        ELSE Parsed(cmds \o rest.cmds)
      IN  CASE tok.t = "plus" -> rest
            [] tok.t = "loop" ->
                 LET body == parsePixelSequence(tok.body, lineNumber)
                 IN  IF body.error # None THEN body
                     ELSE Then(<<PixelLoop(tok.count, body.cmds, lineNumber)>>)
            [] tok.t = "openloop" ->
                 Thrown(SyntaxError(lineNumber, "Unbalanced parenthesis in loop."))
            [] tok.t = "off" -> Then(<<PixelSkip(lineNumber)>>)
            [] tok.t = "rgb" ->
                 Then(<<PixelPaint(getMixedColor(tok.letters), lineNumber)>>)
            [] OTHER -> Thrown(SyntaxError(lineNumber, "Unknown command."))

RowTargets == <<"1", "2", "3", "4", "5", "6", "7", "8">>
ColTargets == <<"A", "B", "C", "D", "E", "F", "G", "H">>
IndexIn(seq, x) == (CHOOSE i \in 1..Len(seq) : seq[i] = x) - 1

InvalidFormat(lineNumber) == Thrown(SyntaxError(lineNumber, "Invalid command format."))

parseLine(line, lineNumber, mode) ==
    IF line.kind = "blank" THEN Parsed(<<>>)
    ELSE IF mode = "PIXEL" THEN
      CASE line.kind = "pixel" -> parsePixelSequence(line.toks, lineNumber)
        \* "+ B" and "+ G" read as a separator and a colour letter
        [] line.kind = "toggle" /\ line.op = "+" /\ line.target \in {"B", "G"} ->
             Parsed(<<PixelPaint(line.target, lineNumber)>>)
        [] line.kind \in {"ruota", "muovi", "junk"}
             \/ (line.kind = "toggle" /\ line.op = "+" /\ line.target \in {"A", "C", "D", "E", "F", "H"}) ->
             Thrown(SyntaxError(lineNumber, "Unknown command."))
        [] OTHER -> Thrown(SyntaxError(lineNumber, "Unexpected character."))
    ELSE IF line.kind = "dim" THEN
      Parsed(<<StartCommand(line.rows, line.cols, lineNumber)>>)
    ELSE
      CASE mode = "TABLE" /\ line.kind = "paint" /\ line.a >= 0 /\ line.b >= 0 ->
             Parsed(<<ColorCommand(line.count, line.color, line.a, line.b, lineNumber)>>)
        [] mode = "GRID" /\ line.kind = "paint" ->
             Parsed(<<GridColorCommand(line.count, line.color, line.a, line.b, lineNumber)>>)
        [] mode = "MAZE" /\ line.kind = "ruota" /\ line.n \in {1, 2, 3} ->
             Parsed(<<RuotaCommand(line.n * 90, lineNumber)>>)
        [] mode = "MAZE" /\ line.kind = "muovi" ->
             Parsed(<<MuoviCommand(line.n, lineNumber)>>)
        [] mode = "MATRIX" /\ line.kind = "toggle"
             /\ (\E i \in 1..Len(RowTargets) : RowTargets[i] = line.target
                                                \/ ColTargets[i] = line.target) ->
             LET isRow == \E i \in 1..Len(RowTargets) : RowTargets[i] = line.target
                 index == IF isRow THEN IndexIn(RowTargets, line.target)
                          ELSE IndexIn(ColTargets, line.target)
             IN  Parsed(<<MatrixCommand(line.op, isRow, index, lineNumber)>>)
        [] OTHER -> InvalidFormat(lineNumber)

\* ---------------------------------------------------------- program loader
\* The ordering rules loadProgram applies to the commands of line i as it
\* pushes them (START: one only, at most MAX_ROWS x MAX_COLS; a paint command
\* of TABLE/GRID only after START).
\* Faulty variant of pushCommands: the commands are pushed without the checks.
pushUnchecked(cmds, i, mode, acc) ==
    [acc EXCEPT !.commands = @ \o cmds,
                !.startCmdFound = @ \/ \E k \in 1..Len(cmds) : cmds[k].type = "START"]

RECURSIVE pushCommands(_, _, _, _)
pushCommands(cmds, i, mode, acc) ==
    IF cmds = <<>> THEN acc
    ELSE
      LET cmd == Head(cmds)
      IN  IF cmd.type = "START" THEN
            IF acc.startCmdFound THEN
              [acc EXCEPT !.error = Err("Multiple definition of table dimensions.", i + 1)]
            ELSE IF cmd.rows > MAX_ROWS \/ cmd.cols > MAX_COLS THEN
              [acc EXCEPT !.error = Err("Table dimensions exceed max.", i + 1)]
            ELSE pushCommands(Tail(cmds), i, mode,
                   [acc EXCEPT !.startCmdFound = TRUE, !.commands = Append(@, cmd)])
          ELSE IF cmd.type \in {"COLOR", "GRID_COLOR"}
                  /\ ~acc.startCmdFound /\ mode \in {"TABLE", "GRID"} THEN
            [acc EXCEPT !.error = Err("Color command before table definition.", i + 1)]
          ELSE pushCommands(Tail(cmds), i, mode, [acc EXCEPT !.commands = Append(@, cmd)])

RECURSIVE parseProgram(_, _, _, _)
parseProgram(lines, i, mode, acc) ==
    IF i >= Len(lines) THEN acc
    ELSE
      LET result == parseLine(lines[i + 1], i, mode)
      IN  IF result.error # None THEN [acc EXCEPT !.error = result.error]
          ELSE
            LET pushed == pushCommands(result.cmds, i, mode, acc)
            IN  IF pushed.error # None THEN pushed
                ELSE parseProgram(lines, i + 1, mode, pushed)

\* Faulty variant of Repeat: the loop bound is k <= loopCount.
RECURSIVE RepeatInclusive(_, _)
RepeatInclusive(seq, k) == IF k < 0 THEN <<>> ELSE seq \o RepeatInclusive(seq, k - 1)

RECURSIVE Repeat(_, _)
Repeat(seq, k) == IF k <= 0 THEN <<>> ELSE seq \o Repeat(seq, k - 1)

RECURSIVE flatten(_)
flatten(cmds) ==
    IF cmds = <<>> THEN <<>>
    ELSE
      LET cmd == Head(cmds)
      IN  IF cmd.type = "PIXEL_CMD" /\ cmd.action = "LOOP"
          THEN Repeat(flatten(cmd.loopCommands), cmd.loopCount) \o flatten(Tail(cmds))
          ELSE <<cmd>> \o flatten(Tail(cmds))

\* ---------------------------------------------------------- maze generator
\* Math.floor(Math.random() * n): the random number is u thousandths.
floorRandom(u, n) == (u * n) \div 1000

\* The random source of one generateMaze call: the numbers the carve draws
\* to pick an unvisited neighbour, one for each cell it enters (the list is
\* repeated), which of the four exits, and the number the shuffle draws for
\* the index to swap with. The first source takes the first neighbour and
\* swaps every index with itself, the second takes the last neighbour and
\* swaps with index 0.
RandomSources ==
    { [pick |-> <<0>>, exit |-> 0, swap |-> 999],
      [pick |-> <<999>>, exit |-> 3, swap |-> 0] }

AllWalls == [top |-> TRUE, right |-> TRUE, bottom |-> TRUE, left |-> TRUE]

Opposite(dir) ==
    CASE dir = "top" -> "bottom" [] dir = "bottom" -> "top"
      [] dir = "left" -> "right" [] OTHER -> "left"

RemoveWall(cells, r, c, dir) ==
    CASE dir = "top" -> [cells EXCEPT ![r + 1][c + 1].top = FALSE]
      [] dir = "bottom" -> [cells EXCEPT ![r + 1][c + 1].bottom = FALSE]
      [] dir = "left" -> [cells EXCEPT ![r + 1][c + 1].left = FALSE]
      [] OTHER -> [cells EXCEPT ![r + 1][c + 1].right = FALSE]

\* A faulty variant: the neighbours inside the grid, visited or not.
NeighborsInGrid(rows, cols, visited, r, c) ==
    (IF r > 0 THEN <<[r |-> r - 1, c |-> c, dir |-> "top"]>> ELSE <<>>)
    \o (IF r < rows - 1 THEN <<[r |-> r + 1, c |-> c, dir |-> "bottom"]>> ELSE <<>>)
    \o (IF c > 0 THEN <<[r |-> r, c |-> c - 1, dir |-> "left"]>> ELSE <<>>)
    \o (IF c < cols - 1 THEN <<[r |-> r, c |-> c + 1, dir |-> "right"]>> ELSE <<>>)

UnvisitedNeighbors(rows, cols, visited, r, c) ==
    (IF r > 0 /\ <<r - 1, c>> \notin visited THEN <<[r |-> r - 1, c |-> c, dir |-> "top"]>> ELSE <<>>)
    \o (IF r < rows - 1 /\ <<r + 1, c>> \notin visited THEN <<[r |-> r + 1, c |-> c, dir |-> "bottom"]>> ELSE <<>>)
    \o (IF c > 0 /\ <<r, c - 1>> \notin visited THEN <<[r |-> r, c |-> c - 1, dir |-> "left"]>> ELSE <<>>)
    \o (IF c < cols - 1 /\ <<r, c + 1>> \notin visited THEN <<[r |-> r, c |-> c + 1, dir |-> "right"]>> ELSE <<>>)

\* One turn of the carve's while loop: the stack's top picks an unvisited
\* neighbour, removes the shared wall and pushes it, or pops.
CarveStep(rows, cols, st, rnd) ==
    IF st.stack = <<>> THEN st
    ELSE
      LET top == st.stack[Len(st.stack)]
          neighbors == UnvisitedNeighbors(rows, cols, st.visited, top[1], top[2])
          u == rnd.pick[((Cardinality(st.visited) - 1) % Len(rnd.pick)) + 1]
      IN  IF neighbors # <<>> THEN
            LET next == neighbors[floorRandom(u, Len(neighbors)) + 1]
            IN  [cells |-> RemoveWall(RemoveWall(st.cells, top[1], top[2], next.dir),
                                      next.r, next.c, Opposite(next.dir)),
                 visited |-> st.visited \cup {<<next.r, next.c>>},
                 stack |-> Append(st.stack, <<next.r, next.c>>)]
          ELSE [st EXCEPT !.stack = SubSeq(@, 1, Len(@) - 1)]

\* n turns of the loop; it has ended (the stack is empty) after one push of
\* every cell but the first and one pop of every cell.
RECURSIVE Carve(_, _, _, _, _)
Carve(rows, cols, st, n, rnd) ==
    IF n <= 1 THEN CarveStep(rows, cols, st, rnd)
    ELSE LET half == Carve(rows, cols, st, n \div 2, rnd)
         IN  IF half.stack = <<>> THEN half
             ELSE Carve(rows, cols, half, n - (n \div 2), rnd)

\* A faulty variant: the exits at the corners.
MazeExitsAtCorners(rows, cols) ==
    << [r |-> 0, c |-> 0, dir |-> "top"],
       [r |-> rows - 1, c |-> cols - 1, dir |-> "bottom"],
       [r |-> rows - 1, c |-> 0, dir |-> "left"],
       [r |-> 0, c |-> cols - 1, dir |-> "right"] >>

MazeExits(rows, cols) ==
    << [r |-> 0, c |-> cols \div 2, dir |-> "top"],
       [r |-> rows - 1, c |-> cols \div 2, dir |-> "bottom"],
       [r |-> rows \div 2, c |-> 0, dir |-> "left"],
       [r |-> rows \div 2, c |-> cols - 1, dir |-> "right"] >>

\* A faulty variant: every cell of the grid may hold an item.
ItemCellsAll(rows, cols, er, ec) ==
    [k \in 1..(rows * cols) |-> <<(k - 1) \div cols, (k - 1) % cols>>]

\* Row-major list of the cells that may hold an item.
ItemCells(rows, cols, er, ec) ==
    LET skip(cell) == \/ cell[1] = rows \div 2 /\ cell[2] = cols \div 2
                      \/ cell[1] = er /\ cell[2] = ec
    IN  SelectSeq([k \in 1..(rows * cols) |-> <<(k - 1) \div cols, (k - 1) % cols>>],
                  LAMBDA cell : ~skip(cell))

\* Fisher-Yates: one turn swaps i and j (0-based).
ShuffleStep(seq, i, rnd) ==
    LET j == floorRandom(rnd.swap, i + 1)
    IN  [seq EXCEPT ![i + 1] = seq[j + 1], ![j + 1] = seq[i + 1]]

\* The turns of the loop for i from hi down to lo.
RECURSIVE Shuffle(_, _, _, _)
Shuffle(seq, hi, lo, rnd) ==
    IF hi < lo THEN seq
    ELSE IF hi = lo THEN ShuffleStep(seq, hi, rnd)
    ELSE LET mid == (hi + lo) \div 2
             upper == Shuffle(seq, hi, mid + 1, rnd)
         IN  IF upper = <<>> THEN upper ELSE Shuffle(upper, mid, lo, rnd)

MazeItem(cell, type) == [r |-> cell[1], c |-> cell[2], type |-> type, collected |-> FALSE]

\* pop() takes the last element: 4 leaves, then 2 carrots.
PlaceItems(shuffled) ==
    LET n == Len(shuffled)
    IN  [i \in 1..6 |-> MazeItem(shuffled[n - i + 1], IF i <= 4 THEN "leaf" ELSE "carrot")]

generateMaze(rows, cols, rnd) ==
    LET start == <<rows \div 2, cols \div 2>>
        carved == Carve(rows, cols,
                        [cells |-> [r \in 1..rows |-> [c \in 1..cols |-> AllWalls]],
                         visited |-> {start}, stack |-> <<start>>],
                        2 * rows * cols, rnd).cells
        exit == MazeExits(rows, cols)[rnd.exit + 1]
        cells == RemoveWall(carved, exit.r, exit.c, exit.dir)
        allCells == ItemCells(rows, cols, exit.r, exit.c)
        shuffled == Shuffle(allCells, Len(allCells) - 1, 1, rnd)
    IN  [rows |-> rows, cols |-> cols, cells |-> cells,
         items |-> PlaceItems(shuffled), exit |-> [r |-> exit.r, c |-> exit.c]]

\* ------------------------------------------------------------- maze state
MazeStart == MazeDim \div 2

Pos(r, c) == [r |-> r, c |-> c]

\* The mazes generateMaze(16, 16) can return, one per random source, at the
\* model's side length.
GeneratedMazes == {<<rnd, generateMaze(MazeDim, MazeDim, rnd)>> : rnd \in RandomSources}

\* The random sources of the New Goal button in MAZE mode: the carve's draws
\* repeat a list of one or two numbers, the exit is any of the four, and the
\* shuffle swaps with the first, the middle or the same index.
PickDraws == {0, 400, 700, 999}

MazeRandoms ==
    { [pick |-> p, exit |-> e, swap |-> w] :
        p \in {<<a>> : a \in PickDraws} \cup (PickDraws \X PickDraws),
        e \in 0..3, w \in {0, 500, 999} }

DrawnMazes == {<<rnd, generateMaze(MazeDim, MazeDim, rnd)>> : rnd \in MazeRandoms}

newMazeState(rnd) ==
    LET maze == (CHOOSE p \in (IF rnd \in RandomSources THEN GeneratedMazes ELSE DrawnMazes) :
                    p[1] = rnd)[2]
    IN  [walls |-> maze.cells, items |-> maze.items, exit |-> Some(maze.exit),
         visited |-> <<Pos(MazeStart, MazeStart)>>,
         turtle |-> [r |-> MazeStart, c |-> MazeStart, dir |-> 0]]

\* ------------------------------------------------------ execution: MAZE
ruota(dir, deg) ==
    LET currentDirNormalized == ((dir % 360) + 360) % 360
    IN  CASE deg = 90 -> (currentDirNormalized + 90) % 360
          [] deg = 270 -> (currentDirNormalized - 90 + 360) % 360
          [] deg = 180 -> (currentDirNormalized + 180) % 360
          [] OTHER -> dir

Ahead(r, c, dir) ==
    CASE dir = 90 -> Pos(r - 1, c)
      [] dir = 270 -> Pos(r + 1, c)
      [] dir = 0 -> Pos(r, c + 1)
      [] dir = 180 -> Pos(r, c - 1)
      [] OTHER -> Pos(r, c)

wallCollision(currentWalls, dir) ==
    \/ dir = 90 /\ currentWalls.top
    \/ dir = 270 /\ currentWalls.bottom
    \/ dir = 0 /\ currentWalls.right
    \/ dir = 180 /\ currentWalls.left

OutOfMaze(p) == p.r < 0 \/ p.r >= MazeDim \/ p.c < 0 \/ p.c >= MazeDim

\* Faulty variant of findItem: the collected flag is not looked at.
findItemAgain(items, r, c) ==
    LET hits == {i \in 1..Len(items) : items[i].r = r /\ items[i].c = c}
    IN  IF hits = {} THEN 0 ELSE CHOOSE i \in hits : \A j \in hits : i <= j

\* findIndex: the first uncollected item on the cell, 0 if there is none.
findItem(items, r, c) ==
    LET hits == {i \in 1..Len(items) :
                   items[i].r = r /\ items[i].c = c /\ ~items[i].collected}
    IN  IF hits = {} THEN 0 ELSE CHOOSE i \in hits : \A j \in hits : i <= j

itemValue(item) == IF item.type = "leaf" THEN 1 ELSE 2

\* The turtle enters cell p: the visited list and the items of the walk.
enterCell(loc, p) ==
    LET seen == \E k \in 1..Len(loc.visited) : loc.visited[k] = p
        itemIdx == findItem(loc.items, p.r, p.c)
    IN  [loc EXCEPT !.r = p.r, !.c = p.c,
                    !.visited = IF seen THEN @ ELSE Append(@, p),
                    !.score = IF itemIdx = 0 THEN @ ELSE @ + itemValue(loc.items[itemIdx]),
                    !.items = IF itemIdx = 0 THEN @
                              ELSE [@ EXCEPT ![itemIdx].collected = TRUE]]

\* The loop of MUOVI over its local copies; error is what it threw, if it did.
RECURSIVE walk(_, _, _, _, _)
walk(walls, dir, loc, s, steps) ==
    IF s >= steps THEN loc
    ELSE
      LET next == Ahead(loc.r, loc.c, dir)
      IN  IF OutOfMaze(next) THEN
            [loc EXCEPT !.error = Err("Hai sbattuto contro un muro o sei uscito dai bordi!", 0)]
          ELSE IF wallCollision(walls[loc.r + 1][loc.c + 1], dir) THEN
            [loc EXCEPT !.error = Err("Hai sbattuto contro un muro!", 0)]
          ELSE walk(walls, dir, enterCell(loc, next), s + 1, steps)

\* Faulty variant of moveThrown: the cells crossed before the throw are kept.
moveThrownKeepingPath(w, ms, res) ==
    [w EXCEPT !.error = res.error,
              !.mazeState = Some([ms EXCEPT !.turtle = [@ EXCEPT !.r = res.r, !.c = res.c]])]

\* What MUOVI leaves in the step's working copy when the walk threw ...
moveThrown(w, ms, res) == [w EXCEPT !.error = res.error]

\* ... and when it ran to its end.
moveDone(w, ms, res) ==
    [w EXCEPT !.mazeState = Some([ms EXCEPT !.items = res.items,
                                            !.visited = res.visited,
                                            !.turtle = [@ EXCEPT !.r = res.r, !.c = res.c]]),
              !.mazeScore = res.score]

execMaze(cmd, w) ==
    CASE cmd.type = "START" -> w
      [] cmd.type \in {"RUOTA", "MUOVI"} /\ w.mazeState = None ->
           [w EXCEPT !.error = Err("TypeError: nextMazeState is null", 0)]
      [] cmd.type = "RUOTA" /\ w.mazeState # None ->
           [w EXCEPT !.mazeState =
              Some([Get(@) EXCEPT !.turtle.dir = ruota(@, cmd.degrees)])]
      [] cmd.type = "MUOVI" /\ w.mazeState # None ->
           LET ms == Get(w.mazeState)
               res == walk(ms.walls, ms.turtle.dir,
                           [r |-> ms.turtle.r, c |-> ms.turtle.c, score |-> w.mazeScore,
                            items |-> ms.items, visited |-> ms.visited, error |-> None],
                           0, cmd.steps)
           IN  IF res.error # None THEN moveThrown(w, ms, res) ELSE moveDone(w, ms, res)
      [] OTHER -> [w EXCEPT !.error = Err("Comando non supportato in modalita MAZE.", 0)]

\* ---------------------------------------------------- execution: MATRIX
\* The two loops over 8 cells write the colour into cell objects that exist:
\* a loop that reaches a cell the grid does not have throws a TypeError.
toggleThrows(grid, cmd) ==
    IF cmd.isRow
    THEN cmd.index >= Len(grid) \/ Len(grid[cmd.index + 1]) < MatrixDim
    ELSE Len(grid) < MatrixDim \/ cmd.index >= Len(grid[1])

\* The grid the loops leave: the cells written before the loop ended or threw.
toggle(grid, cmd) ==
    LET colorToSet == IF cmd.operation = "+" THEN "W" ELSE Unlit
    IN  IF cmd.isRow
        THEN IF cmd.index >= Len(grid) THEN grid
             ELSE [grid EXCEPT ![cmd.index + 1] =
                     [c \in 1..Len(@) |-> IF c - 1 < MatrixDim THEN colorToSet ELSE @[c]]]
        ELSE IF Len(grid) = 0 \/ cmd.index >= Len(grid[1]) THEN grid
             ELSE [r \in 1..Len(grid) |->
                     IF r - 1 < MatrixDim THEN [grid[r] EXCEPT ![cmd.index + 1] = colorToSet]
                     ELSE grid[r]]

execMatrix(cmd, w) ==
    CASE cmd.type = "START" -> w
      [] cmd.type = "MATRIX" ->
           IF w.grid = None THEN [w EXCEPT !.error = Err("Internal Error: Grid not initialized.", 0)]
           ELSE IF toggleThrows(Get(w.grid), cmd)
           THEN [w EXCEPT !.grid = Some(toggle(Get(@), cmd)),
                          !.error = Err("Cannot set properties of undefined", 0)]
           ELSE [w EXCEPT !.grid = Some(toggle(Get(@), cmd))]
      [] OTHER -> [w EXCEPT !.error = Err("Comando non supportato in modalita MATRIX.", 0)]

\* ----------------------------------------------------- execution: PIXEL
pixelWrite(grid, lastPos, color) ==
    IF lastPos.r < PixelDim /\ lastPos.c < PixelDim
    THEN SetCell(grid, lastPos.r, lastPos.c, color)
    ELSE grid

pixelAdvance(lastPos) ==
    IF lastPos.c + 1 >= PixelDim THEN Pos(lastPos.r + 1, 0)
    ELSE Pos(lastPos.r, lastPos.c + 1)

execPixel(cmd, w) ==
    IF w.grid = None THEN [w EXCEPT !.error = Err("Internal Error: Grid not initialized.", 0)]
    ELSE IF cmd.type # "PIXEL_CMD" THEN [w EXCEPT !.error = Err("Invalid command for PIXEL mode", 0)]
    ELSE
      LET painted ==
            CASE cmd.action = "PAINT" -> pixelWrite(Get(w.grid), w.lastPos, cmd.color)
              [] cmd.action = "SKIP" -> pixelWrite(Get(w.grid), w.lastPos, Unlit)
              [] OTHER -> Get(w.grid)
      IN  [w EXCEPT !.grid = Some(painted), !.lastPos = pixelAdvance(@)]

\* ------------------------------------------------ execution: TABLE / GRID
paintTarget(cmd, lastPos) ==
    IF cmd.type = "COLOR" THEN Pos(cmd.row, cmd.col)
    ELSE Pos(lastPos.r + cmd.deltaY, lastPos.c + cmd.deltaX)

\* Faulty variant of movementCost: every painted cell counts as a movement.
movementCostPerCell(cmd) == Abs(cmd.deltaX) + Abs(cmd.deltaY) + cmd.count

movementCost(cmd) ==
    Abs(cmd.deltaX) + Abs(cmd.deltaY) + (IF cmd.count > 0 THEN cmd.count - 1 ELSE 0)

positionOutOfBounds(grid, target) ==
    target.r < 0 \/ target.r >= GridRows(grid) \/ target.c < 0 \/ target.c >= GridCols(grid)

fillExceeds(grid, target, count) == target.c + count > GridCols(grid)

\* Faulty variant of fill: the loop runs one cell too far.
fillOneMore(grid, target, count, color) ==
    [grid EXCEPT ![target.r + 1] =
       [c \in 1..Len(@) |-> IF c - 1 >= target.c /\ c - 1 <= target.c + count
                            THEN color ELSE @[c]]]

fill(grid, target, count, color) ==
    [grid EXCEPT ![target.r + 1] =
       [c \in 1..Len(@) |-> IF c - 1 >= target.c /\ c - 1 < target.c + count
                            THEN color ELSE @[c]]]

\* Faulty variant of paint: the position is stored before the checks, the
\* way the movement cost is.
paintMovingFirst(cmd, w) ==
    IF w.grid = None THEN [w EXCEPT !.error = Err("Internal Error: Grid not initialized.", 0)]
    ELSE
      LET target == paintTarget(cmd, w.lastPos)
          moved == [w EXCEPT !.lastPos = Pos(target.r, target.c + cmd.count - 1)]
          grid == Get(w.grid)
      IN  IF positionOutOfBounds(grid, target) THEN
            [moved EXCEPT !.error = Err("Runtime Error: Position out of bounds.", cmd.lineNumber + 1)]
          ELSE IF fillExceeds(grid, target, cmd.count) THEN
            [moved EXCEPT !.error = Err("Runtime Error: Filling exceeds column bounds.", cmd.lineNumber + 1)]
          ELSE [moved EXCEPT !.grid = Some(fill(grid, target, cmd.count, cmd.color))]

paint(cmd, w) ==
    IF w.grid = None THEN [w EXCEPT !.error = Err("Internal Error: Grid not initialized.", 0)]
    ELSE
      LET target == paintTarget(cmd, w.lastPos)
          moved == IF cmd.type = "GRID_COLOR"
                   THEN [w EXCEPT !.totalMovements = @ + movementCost(cmd)] ELSE w
          grid == Get(w.grid)
      IN  IF positionOutOfBounds(grid, target) THEN
            [moved EXCEPT !.error = Err("Runtime Error: Position out of bounds.", cmd.lineNumber + 1)]
          ELSE IF fillExceeds(grid, target, cmd.count) THEN
            [moved EXCEPT !.error = Err("Runtime Error: Filling exceeds column bounds.", cmd.lineNumber + 1)]
          ELSE [moved EXCEPT !.grid = Some(fill(grid, target, cmd.count, cmd.color)),
                             !.lastPos = Pos(target.r, target.c + cmd.count - 1)]

execTable(cmd, w) ==
    CASE cmd.type = "START" ->
           [w EXCEPT !.grid = Some(createEmptyGrid(cmd.rows, cmd.cols)),
                     !.lastPos = Pos(-1, -1), !.totalMovements = 0]
      [] cmd.type \in {"COLOR", "GRID_COLOR"} -> paint(cmd, w)
      [] OTHER -> w

execCommand(mode, cmd, w) ==
    CASE mode = "MAZE" -> execMaze(cmd, w)
      [] mode = "MATRIX" -> execMatrix(cmd, w)
      [] mode = "PIXEL" -> execPixel(cmd, w)
      [] OTHER -> execTable(cmd, w)

\* ------------------------------------------------------- silent replay
\* paint() of executePixelCommandsOnGrid: st = [grid, cursor, currentLine].
silentPixelPaint(st, color, cmdLine) ==
    LET cur == IF cmdLine # st.currentLine THEN Pos(cmdLine, 0) ELSE st.cursor
    IN  [grid |-> IF cur.r < PixelDim /\ cur.c < PixelDim
                  THEN SetCell(st.grid, cur.r, cur.c, color) ELSE st.grid,
         cursor |-> Pos(cur.r, cur.c + 1),
         currentLine |-> cmdLine]

RECURSIVE runCmds(_, _)
RECURSIVE runLoop(_, _, _)
\* The for loop of runCmds, its commands taken in order; a long list is run
\* as its first half and then its second half.
runCmds(cmds, st) ==
    IF cmds = <<>> THEN st
    ELSE IF Len(cmds) = 1 THEN
      LET cmd == Head(cmds)
      IN  IF cmd.type # "PIXEL_CMD" THEN st
          ELSE CASE cmd.action = "PAINT" -> silentPixelPaint(st, cmd.color, cmd.lineNumber)
                 [] cmd.action = "SKIP" -> silentPixelPaint(st, Unlit, cmd.lineNumber)
                 [] OTHER -> runLoop(cmd.loopCount, cmd.loopCommands, st)
    ELSE
      LET mid == Len(cmds) \div 2
          done == runCmds(SubSeq(cmds, 1, mid), st)
      \* done is computed before the loop goes on
      IN  IF done.cursor.c < 0 THEN done
          ELSE runCmds(SubSeq(cmds, mid + 1, Len(cmds)), done)

runLoop(k, body, st) ==
    IF k <= 0 THEN st
    ELSE LET done == runCmds(body, st)
         IN  IF done.cursor.c < 0 THEN done ELSE runLoop(k - 1, body, done)

executePixelCommandsOnGrid(grid, cmds, startPos) ==
    runCmds(cmds, [grid |-> grid, cursor |-> startPos, currentLine |-> -1])

\* Faulty variant of silentCount: a paint that does not fit paints nothing.
silentCountOrNothing(cmd, grid, target) ==
    IF cmd.count > GridCols(grid) - target.c THEN 0 ELSE cmd.count

\* A faulty variant: a silent paint fills the row to its last column.
silentCountToRowEnd(cmd, grid, target) == GridCols(grid) - target.c

\* The number of cells a silent paint writes: the count, cut at the last column.
silentCount(cmd, grid, target) == Min(cmd.count, GridCols(grid) - target.c)

\* One round of the replay loop: st = [grid, lastPos]; what a command throws
\* is swallowed with the cells it wrote left in place.
silentCommand(cmd, st) ==
    CASE cmd.type = "START" ->
           [grid |-> Some(createEmptyGrid(cmd.rows, cmd.cols)), lastPos |-> Pos(-1, -1)]
      [] cmd.type = "MATRIX" /\ st.grid # None ->
           [st EXCEPT !.grid = Some(toggle(Get(@), cmd))]
      [] cmd.type \in {"COLOR", "GRID_COLOR"} ->
           IF st.grid = None THEN st
           ELSE
             LET grid == Get(st.grid)
                 target == paintTarget(cmd, st.lastPos)
             IN  IF positionOutOfBounds(grid, target) THEN st
                 ELSE
                   LET count == silentCount(cmd, grid, target)
                   IN  [grid |-> Some(fill(grid, target, count, cmd.color)),
                        lastPos |-> Pos(target.r, target.c + count - 1)]
      [] OTHER -> st

RECURSIVE silentLoop(_, _)
silentLoop(cmds, st) ==
    IF cmds = <<>> THEN st
    ELSE LET done == silentCommand(Head(cmds), st)
         \* done is computed before the loop goes on
         IN  IF done.lastPos.r < -1 THEN done ELSE silentLoop(Tail(cmds), done)

executeCommandsSilently(cmds, mode) ==
    CASE mode = "MAZE" -> None
      [] mode = "PIXEL" ->
           Some(executePixelCommandsOnGrid(createEmptyGrid(PixelDim, PixelDim),
                                           cmds, Pos(0, 0)).grid)
      [] OTHER ->
           silentLoop(cmds, [grid |-> IF mode = "MATRIX"
                                      THEN Some(createEmptyGrid(MatrixDim, MatrixDim))
                                      ELSE None,
                             lastPos |-> Pos(-1, -1)]).grid

\* ------------------------------------------------------ target generator
\* Number.prototype.toString for one digit and String.fromCharCode for a
\* capital letter.
toString(n) == <<"0", "1", "2", "3", "4", "5", "6", "7", "8", "9">>[n + 1]
fromCharCode(code) ==
    <<"A", "B", "C", "D", "E", "F", "G", "H", "I", "J", "K", "L", "M",
      "N", "O", "P", "Q", "R", "S", "T", "U", "V", "W", "X", "Y", "Z">>[code - 64]

\* The three draws of one round of generateMatrixTarget.
Draw(isRow, index, operation) == [isRow |-> isRow, index |-> index, operation |-> operation]

\* Faulty variant of targetName: rows are named from 0.
targetNameFromZero(isRow, index) ==
    IF isRow THEN toString(index) ELSE fromCharCode(65 + index)

\* The name of a row (1-8) or of a column (A-H) in a command string.
targetName(isRow, index) ==
    IF isRow THEN toString(index + 1) ELSE fromCharCode(65 + index)

\* The command string of a draw, as the line the parser is given.
cmdStr(d) == ToggleLine(d.operation, targetName(d.isRow, d.index))

\* The draw applied to the generator's grid.
lightLine(grid, d) ==
    LET colorToSet == IF d.operation = "+" THEN "W" ELSE Unlit
    IN  [r \in 1..Len(grid) |-> [c \in 1..Len(grid[r]) |->
            IF (IF d.isRow THEN r - 1 = d.index ELSE c - 1 = d.index)
            THEN colorToSet ELSE grid[r][c]]]

RECURSIVE lightLines(_, _)
lightLines(grid, draws) ==
    IF draws = <<>> THEN grid
    ELSE LET done == lightLine(grid, Head(draws))
         \* done is computed before the loop goes on
         IN  IF done = <<>> THEN done ELSE lightLines(done, Tail(draws))

\* The number of cells of the grid that are lit.
onCount(grid) ==
    Cardinality({rc \in (1..Len(grid)) \X (1..MatrixDim) : grid[rc[1]][rc[2]] # Unlit})

\* Faulty variant of accepted: 40 cells or more.
acceptedFrom(count) == count >= 40

\* The strict requirement on a configuration.
accepted(count) == count = 40

\* A random source: the number of commands drawn and, for each attempt, the
\* draws of its rounds, which repeat a short pattern.
RoundsOf(pattern, numCommands) ==
    [i \in 1..numCommands |-> pattern[((i - 1) % Len(pattern)) + 1]]

\* generateMatrixTarget on a random source: the first attempt that is
\* accepted, or None while the loop has not ended.
RECURSIVE generateMatrixTarget(_, _)
generateMatrixTarget(rnd, attempt) ==
    IF attempt > Len(rnd.attempts) THEN None
    ELSE
      LET draws == RoundsOf(rnd.attempts[attempt], rnd.numCommands)
          grid == lightLines(createEmptyGrid(MatrixDim, MatrixDim), draws)
      IN  IF accepted(onCount(grid))
          THEN Some([grid |-> grid, code |-> [i \in 1..Len(draws) |-> cmdStr(draws[i])]])
          ELSE generateMatrixTarget(rnd, attempt + 1)

\* A colour string of generatePixelTarget is written as the token the parser
\* reads it as: a run of the letters R, G, B, the letter O (emitted as Off),
\* or one of C, M, Y, which the PIXEL grammar reads as a word.
LetterO == [t |-> "O"]

\* getColor of generatePixelTarget: the mixture of the letters R, G, B that
\* the string holds, null when it holds none.
getColor(s) ==
    IF s.t # "rgb" THEN Unlit
    ELSE IF {"R", "G", "B"} \subseteq s.letters THEN "W"
    ELSE IF {"R", "G"} \subseteq s.letters THEN "Y"
    ELSE IF {"G", "B"} \subseteq s.letters THEN "C"
    ELSE IF {"R", "B"} \subseteq s.letters THEN "M"
    ELSE IF "R" \in s.letters THEN "R"
    ELSE IF "G" \in s.letters THEN "G"
    ELSE "B"

\* The text of a colour string in the emitted line ('O' is written Off) and
\* the cell colour it stands for.
colorText(cStr) == IF cStr = LetterO THEN Off ELSE cStr
colorOf(cStr) == IF cStr = LetterO THEN Unlit ELSE getColor(cStr)

\* The draws of one row: the row template and its colour strings.
RowDraw(patternType, colors) == [patternType |-> patternType, colors |-> colors]

\* One round of the row loop: the 16 cells of the row and the line pushed.
pixelRow(d) ==
    CASE d.patternType = "fill" ->
           [cells |-> [c \in 1..PixelDim |-> getColor(d.colors[1])],
            line |-> PixelLine(<<Loop(16, <<d.colors[1]>>)>>)]
      [] d.patternType = "alternate" ->
           [cells |-> [c \in 1..PixelDim |->
                         IF (c - 1) % 2 = 0 THEN getColor(d.colors[1])
                         ELSE colorOf(d.colors[2])],
            line |-> PixelLine(<<Loop(8, <<d.colors[1], Plus, colorText(d.colors[2])>>)>>)]
      [] d.patternType = "chunks" ->
           [cells |-> [c \in 1..PixelDim |-> colorOf(d.colors[((c - 1) % 4) + 1])],
            line |-> PixelLine(<<Loop(4, <<colorText(d.colors[1]), Plus,
                                           colorText(d.colors[2]), Plus,
                                           colorText(d.colors[3]), Plus,
                                           colorText(d.colors[4])>>)>>)]
      [] OTHER ->
           [cells |-> [c \in 1..PixelDim |->
                         IF c - 1 < 8 THEN getColor(d.colors[1])
                         ELSE getColor(d.colors[2])],
            line |-> PixelLine(<<Loop(8, <<d.colors[1]>>), Plus,
                                 Loop(8, <<d.colors[2]>>)>>)]

\* generatePixelTarget on a random source: the draws of the 16 rows.
generatePixelTarget(rnd) ==
    [grid |-> [r \in 1..PixelDim |-> pixelRow(rnd[r]).cells],
     code |-> [r \in 1..PixelDim |-> pixelRow(rnd[r]).line]]

\* ------------------------------------------- TABLE and challenge targets
\* (['R', 'G', 'B'])[Math.floor(Math.random() * 3)]
randomColor(u) == <<"R", "G", "B">>[floorRandom(u, 3) + 1]

\* The loop that writes one strip: count cells of the row from col on.
strip(grid, row, col, count, color) ==
    [r \in 1..Len(grid) |-> [c \in 1..Len(grid[r]) |->
        IF r - 1 = row /\ c - 1 >= col /\ c - 1 < col + count THEN color
        ELSE grid[r][c]]]

\* The draws of one strip of generateRandomTarget and of an extra strip of
\* generateChallengeTarget: colour, row, col and count.
StripDraw(color, row, col, count) == [color |-> color, row |-> row, col |-> col, count |-> count]

\* One round of the strip loop: a random length that fits from a random cell.
randomStrip(grid, rows, cols, d) ==
    LET row == floorRandom(d.row, rows)
        col == floorRandom(d.col, cols)
        maxLen == cols - col
        count == floorRandom(d.count, maxLen) + 1
    IN  strip(grid, row, col, count, randomColor(d.color))

RECURSIVE randomStrips(_, _, _, _)
randomStrips(grid, rows, cols, draws) ==
    IF draws = <<>> THEN grid
    ELSE LET done == randomStrip(grid, rows, cols, Head(draws))
         \* done is computed before the loop goes on
         IN  IF done = <<>> THEN done ELSE randomStrips(done, rows, cols, Tail(draws))

\* generateRandomTarget on a random source: 3 to 12 rows and columns, 3 to 7
\* strips, whose draws repeat the source's list.
generateRandomTarget(rnd) ==
    LET rows == floorRandom(rnd.rows, 10) + 3
        cols == floorRandom(rnd.cols, 10) + 3
        numCommands == floorRandom(rnd.numCommands, 5) + 3
    IN  randomStrips(createEmptyGrid(rows, cols), rows, cols,
                     RoundsOf(rnd.strips, numCommands))

\* allRowIndices.sort(() => Math.random() - 0.5).slice(0, 10): the order the
\* sort leaves is a permutation of the rows, here the rows as they were,
\* reversed, or rotated by two.
selectedRows(rows, order) ==
    [i \in 1..10 |->
        CASE order = "kept" -> i - 1
          [] order = "reversed" -> rows - i
          [] OTHER -> (i + 1) % rows]

\* The strips of one selected row: each starts at or after the end of the
\* one before and is 1 to 3 cells long; the loop breaks when fewer than two
\* columns are left. A strip draw is [color, start, count].
RECURSIVE rowStrips(_, _, _, _, _)
rowStrips(grid, cols, row, strips, currentPos) ==
    IF strips = <<>> THEN grid
    ELSE
      LET d == Head(strips)
          availableSpace == cols - currentPos
          startCol == currentPos + floorRandom(d.start, availableSpace - 1)
          maxLen == cols - startCol
          count == floorRandom(d.count, Min(maxLen, 3)) + 1
      IN  IF availableSpace < 2 THEN grid
          ELSE rowStrips(strip(grid, row, startCol, count, randomColor(d.color)),
                         cols, row, Tail(strips), startCol + count)

RECURSIVE challengeRows(_, _, _, _)
challengeRows(grid, cols, rows, strips) ==
    IF rows = <<>> THEN grid
    ELSE LET done == rowStrips(grid, cols, Head(rows), strips, 0)
         \* done is computed before the loop goes on
         IN  IF done = <<>> THEN done ELSE challengeRows(done, cols, Tail(rows), strips)

\* generateChallengeTarget on a random source: 10 to 14 rows, 7 to 14
\* columns, one or two strips in each of ten selected rows (the same draws
\* in every row) and up to two extra strips anywhere.
generateChallengeTarget(rnd) ==
    LET rows == floorRandom(rnd.rows, 5) + 10
        cols == floorRandom(rnd.cols, 8) + 7
        coloured == challengeRows(createEmptyGrid(rows, cols), cols,
                                  selectedRows(rows, rnd.order), rnd.strips)
    IN  randomStrips(coloured, rows, cols, rnd.extraStrips)

\* ------------------------------------------------------------------ store
VARIABLES
    mode, sourceCode, commands, currentGrid, targetGrid, solutionCode,
    mazeState, mazeScore, pc, isRunning, error, completionStatus, lastPos, totalMovements,
    timeLeft, isChallengeActive, isLocked, showCertificateModal, lastChallengeTime,
    \* history: the last operation other than step and the step() calls made
    \* since, and the store as it was before the last step() call
    hist, pre

store == <<mode, sourceCode, commands, currentGrid, targetGrid, solutionCode,
           mazeState, mazeScore, pc, isRunning, error, completionStatus, lastPos,
           totalMovements, timeLeft, isChallengeActive, isLocked, showCertificateModal,
           lastChallengeTime>>
vars == <<store, hist, pre>>

\* get(): the store as one value.
S == [mode |-> mode, sourceCode |-> sourceCode, commands |-> commands,
      currentGrid |-> currentGrid, targetGrid |-> targetGrid,
      solutionCode |-> solutionCode,
      mazeState |-> mazeState, mazeScore |-> mazeScore, pc |-> pc, isRunning |-> isRunning, error |-> error,
      completionStatus |-> completionStatus, lastPos |-> lastPos,
      totalMovements |-> totalMovements, timeLeft |-> timeLeft,
      isChallengeActive |-> isChallengeActive, isLocked |-> isLocked,
      showCertificateModal |-> showCertificateModal,
      lastChallengeTime |-> lastChallengeTime]

\* set(): the store becomes s.
Set(s) ==
    /\ mode' = s.mode
    /\ sourceCode' = s.sourceCode
    /\ commands' = s.commands
    /\ currentGrid' = s.currentGrid
    /\ targetGrid' = s.targetGrid
    /\ solutionCode' = s.solutionCode
    /\ mazeState' = s.mazeState
    /\ mazeScore' = s.mazeScore
    /\ pc' = s.pc
    /\ isRunning' = s.isRunning
    /\ error' = s.error
    /\ completionStatus' = s.completionStatus
    /\ lastPos' = s.lastPos
    /\ totalMovements' = s.totalMovements
    /\ timeLeft' = s.timeLeft
    /\ isChallengeActive' = s.isChallengeActive
    /\ isLocked' = s.isLocked
    /\ showCertificateModal' = s.showCertificateModal
    /\ lastChallengeTime' = s.lastChallengeTime

\* The store holds s (an initial condition).
Holds(s) ==
    /\ mode = s.mode
    /\ sourceCode = s.sourceCode
    /\ commands = s.commands
    /\ currentGrid = s.currentGrid
    /\ targetGrid = s.targetGrid
    /\ solutionCode = s.solutionCode
    /\ mazeState = s.mazeState
    /\ mazeScore = s.mazeScore
    /\ pc = s.pc
    /\ isRunning = s.isRunning
    /\ error = s.error
    /\ completionStatus = s.completionStatus
    /\ lastPos = s.lastPos
    /\ totalMovements = s.totalMovements
    /\ timeLeft = s.timeLeft
    /\ isChallengeActive = s.isChallengeActive
    /\ isLocked = s.isLocked
    /\ showCertificateModal = s.showCertificateModal
    /\ lastChallengeTime = s.lastChallengeTime

InitialStore ==
    [mode |-> "TABLE", sourceCode |-> <<>>, commands |-> <<>>, currentGrid |-> None,
     targetGrid |-> None, solutionCode |-> None, mazeState |-> None, mazeScore |-> 0,
     pc |-> 0, isRunning |-> FALSE,
     error |-> None, completionStatus |-> "idle", lastPos |-> Pos(-1, -1),
     totalMovements |-> 0, timeLeft |-> 0, isChallengeActive |-> FALSE,
     isLocked |-> FALSE, showCertificateModal |-> FALSE, lastChallengeTime |-> None]

\* --------------------------------------------------------------- operations
loadProgram(s, code, updateTarget) ==
    LET parsed == parseProgram(code, 0, s.mode,
                    [error |-> None, commands |-> <<>>, startCmdFound |-> FALSE])
        cmds == IF s.mode = "PIXEL" THEN flatten(parsed.commands) ELSE parsed.commands
        newState == [s EXCEPT !.sourceCode = code, !.commands = cmds, !.error = None,
                              !.pc = 0, !.completionStatus = "idle",
                              !.lastPos = Pos(-1, -1), !.totalMovements = 0]
        withGrid ==
          CASE s.mode = "MAZE" -> newState
            [] s.mode = "MATRIX" ->
                 [newState EXCEPT !.currentGrid = Some(createEmptyGrid(MatrixDim, MatrixDim))]
            [] s.mode = "PIXEL" ->
                 [newState EXCEPT !.currentGrid = Some(createEmptyGrid(PixelDim, PixelDim)),
                                  !.lastPos = Pos(0, 0)]
            [] OTHER -> [newState EXCEPT !.currentGrid = None]
        simulatedGrid == executeCommandsSilently(cmds, s.mode)
    IN  IF parsed.error # None THEN [s EXCEPT !.error = parsed.error]
        ELSE IF updateTarget /\ simulatedGrid # None
        THEN [withGrid EXCEPT !.targetGrid = simulatedGrid]
        ELSE withGrid

findStart(cmds) ==
    LET starts == {i \in 1..Len(cmds) : cmds[i].type = "START"}
    IN  IF starts = {} THEN None
        ELSE Some(cmds[CHOOSE i \in starts : \A j \in starts : i <= j])

uncollect(items) == [i \in 1..Len(items) |-> [items[i] EXCEPT !.collected = FALSE]]

\* A faulty variant: the counters are cleared and the grid is left as it is.
resetKeepingGrid(s, forceNewMaze, rnd) ==
    [s EXCEPT !.pc = 0, !.error = None, !.isRunning = FALSE,
              !.completionStatus = "idle", !.lastPos = Pos(-1, -1),
              !.totalMovements = 0]

reset(s, forceNewMaze, rnd) ==
    LET newState == [s EXCEPT !.pc = 0, !.error = None, !.isRunning = FALSE,
                              !.completionStatus = "idle", !.lastPos = Pos(-1, -1),
                              !.totalMovements = 0]
        startCmd == findStart(s.commands)
    IN  CASE s.mode = "MAZE" ->
               [newState EXCEPT
                  !.mazeState =
                     IF s.mazeState = None \/ forceNewMaze THEN Some(newMazeState(rnd))
                     ELSE Some([Get(s.mazeState) EXCEPT
                                  !.items = uncollect(@),
                                  !.visited = <<Pos(MazeStart, MazeStart)>>]),
                  !.mazeScore = 0,
                  !.currentGrid = Some(createEmptyGrid(MazeDim, MazeDim))]
          [] s.mode = "MATRIX" ->
               [newState EXCEPT !.currentGrid = Some(createEmptyGrid(MatrixDim, MatrixDim))]
          [] s.mode = "PIXEL" ->
               [newState EXCEPT !.currentGrid = Some(createEmptyGrid(PixelDim, PixelDim)),
                                !.lastPos = Pos(0, 0)]
          [] OTHER ->
               [newState EXCEPT !.currentGrid =
                  IF startCmd = None THEN None
                  ELSE Some(createEmptyGrid(Get(startCmd).rows, Get(startCmd).cols))]

\* Faulty variant of sameBatch: no command belongs to the batch.
sameBatchOfNone(cmds, nextPc, startLine) == FALSE

\* Faulty variant of sameBatch: the line number is not compared.
sameBatchIgnoringLine(cmds, nextPc, startLine) == nextPc < Len(cmds)

\* The loop condition of step(): the next command belongs to the batch.
sameBatch(cmds, nextPc, startLine) ==
    nextPc < Len(cmds) /\ cmds[nextPc + 1].lineNumber = startLine

\* Faulty variant of pcAfterThrow: the counter goes back to the first command.
pcRewound(nextPc) == 0

\* Faulty variant of pcAfterThrow: the counter moves past the command.
pcPastThrow(nextPc) == nextPc + 1

\* The program counter after the command at nextPc threw.
pcAfterThrow(nextPc) == nextPc

RECURSIVE runBatch(_, _, _, _)
runBatch(s, startLine, nextPc, w) ==
    IF ~sameBatch(s.commands, nextPc, startLine) THEN [w EXCEPT !.pc = nextPc]
    ELSE
      LET done == execCommand(s.mode, s.commands[nextPc + 1], w)
      IN  IF done.error # None THEN [done EXCEPT !.pc = pcAfterThrow(nextPc)]
          ELSE runBatch(s, startLine, nextPc + 1, done)

\* A faulty variant: a program that is not running is stepped all the same.
stepIdleAtEndOnly(s) == s.pc >= Len(s.commands)

\* The guard of step(): nothing to do.
stepIdle(s) == ~s.isRunning \/ s.pc >= Len(s.commands)

step(s) ==
    IF stepIdle(s) THEN [s EXCEPT !.isRunning = FALSE]
    ELSE
      LET startLine == s.commands[s.pc + 1].lineNumber
          clone == [mazeState |-> s.mazeState, mazeScore |-> s.mazeScore,
                    grid |-> s.currentGrid,
                    lastPos |-> IF s.mode = "PIXEL" THEN Pos(startLine, 0) ELSE s.lastPos,
                    totalMovements |-> s.totalMovements, pc |-> s.pc, error |-> None]
          w == runBatch(s, startLine, s.pc, clone)
          keepRunning == w.error = None
      IN  [s EXCEPT !.mazeState = w.mazeState, !.mazeScore = w.mazeScore,
                    !.currentGrid = w.grid, !.lastPos = w.lastPos,
                    !.totalMovements = w.totalMovements, !.pc = w.pc,
                    !.isRunning = keepRunning /\ s.isRunning /\ w.pc < Len(s.commands),
                    !.error = w.error,
                    !.completionStatus = IF w.error # None THEN "failure" ELSE "idle"]

\* A faulty variant: the flag is set and the program goes on from where it is.
runFromHere(s, rnd) == [s EXCEPT !.isRunning = TRUE]

run(s, rnd) == [reset(s, FALSE, rnd) EXCEPT !.isRunning = TRUE]

stop(s) == [s EXCEPT !.isRunning = FALSE]

setMode(s, m, rnd) ==
    LET afterReset == reset([s EXCEPT !.mode = m], FALSE, rnd)
    IN  loadProgram(afterReset, afterReset.sourceCode, FALSE)

setTargetGrid(s, grid, code) ==
    [s EXCEPT !.targetGrid = Some(grid), !.solutionCode = code,
              !.isChallengeActive = FALSE, !.isLocked = FALSE,
              !.showCertificateModal = FALSE, !.timeLeft = 0]

LOCKOUT_PERIOD == 30 * 60 * 1000

\* Math.ceil(ms / 60000) of a positive number of milliseconds.
ceilMinutes(ms) == (ms + 59999) \div 60000

\* The message of a refused challenge: its text and the minutes to wait.
Lockout(remaining) == Some([text |-> "Sfida bloccata.", line |-> remaining])

\* The number of rows of the grid that hold a coloured cell.
coloredRows(grid) ==
    Cardinality({r \in 1..Len(grid) : \E c \in 1..Len(grid[r]) : grid[r][c] # Unlit})

\* Faulty variant of timeBudget: a minute for every row of the target.
timeBudgetOfAllRows(grid) == Len(grid) * 60

\* The seconds a challenge is given.
timeBudget(grid) == coloredRows(grid) * 60

\* startChallenge at time now; rnd holds what the generators draw: a goal of
\* generateMatrixTarget, the source of generateChallengeTarget, and the
\* source of the maze that reset() may generate.
startChallenge(s, now, rnd) ==
    IF /\ s.lastChallengeTime # None
       /\ Get(s.lastChallengeTime) # 0
       /\ now - Get(s.lastChallengeTime) < LOCKOUT_PERIOD
    THEN [s EXCEPT !.error =
            Lockout(ceilMinutes(LOCKOUT_PERIOD - (now - Get(s.lastChallengeTime))))]
    ELSE
      LET challengeTarget == IF s.mode = "MATRIX" THEN rnd.matrix.grid
                             ELSE generateChallengeTarget(rnd.challenge)
          code == IF s.mode = "MATRIX" THEN Some(rnd.matrix.code) ELSE None
      IN  reset([s EXCEPT !.targetGrid = Some(challengeTarget),
                          !.solutionCode = code,
                          !.timeLeft = timeBudget(challengeTarget),
                          !.isChallengeActive = TRUE,
                          !.isLocked = FALSE,
                          !.showCertificateModal = FALSE,
                          !.lastChallengeTime = Some(now),
                          !.pc = 0,
                          !.currentGrid = None,
                          !.error = None,
                          !.completionStatus = "idle",
                          !.lastPos = Pos(-1, -1),
                          !.totalMovements = 0],
                FALSE, rnd.maze)

\* A faulty variant: the store is locked and the challenge stays active.
stopChallengeLockingOnly(s) ==
    [s EXCEPT !.isLocked = TRUE, !.showCertificateModal = TRUE, !.isRunning = FALSE]

stopChallenge(s) ==
    [s EXCEPT !.isChallengeActive = FALSE, !.isLocked = TRUE,
              !.showCertificateModal = TRUE, !.isRunning = FALSE]

\* A faulty variant: the countdown ends on the tick that finds no time left.
tickTimerPastZero(s) ==
    IF ~s.isChallengeActive THEN s
    ELSE IF s.timeLeft <= 0
    THEN [s EXCEPT !.timeLeft = 0, !.isChallengeActive = FALSE, !.isLocked = TRUE,
                   !.isRunning = FALSE, !.showCertificateModal = TRUE]
    ELSE [s EXCEPT !.timeLeft = @ - 1]

tickTimer(s) ==
    IF ~s.isChallengeActive THEN s
    ELSE IF s.timeLeft <= 1
    THEN [s EXCEPT !.timeLeft = 0, !.isChallengeActive = FALSE, !.isLocked = TRUE,
                   !.isRunning = FALSE, !.showCertificateModal = TRUE]
    ELSE [s EXCEPT !.timeLeft = @ - 1]

\* ------------------------------------------------------------------ score
\* A score is a multiple of 0.25 (sums of +0.25 and -0.25, an integer over 4,
\* the maze score): the model counts it in quarter points.
Points(n) == 4 * n
Max(a, b) == IF a >= b THEN a ELSE b

\* The loops read grid[r][c].color for r, c below side: a row or a cell that
\* is not there throws a TypeError.
readThrows(grid, side) ==
    \/ Len(grid) < side
    \/ \E r \in 1..side : Len(grid[r]) < side

\* The cells (r, c) below side, 1-based.
Cells(side) == (1..side) \X (1..side)

\* MATRIX: +0.25 for a cell lit in both grids, -0.25 for a cell lit in the
\* current grid only.
matrixSum(cur, tgt) ==
    Cardinality({rc \in Cells(MatrixDim) :
                   tgt[rc[1]][rc[2]] # Unlit /\ cur[rc[1]][rc[2]] # Unlit})
    - Cardinality({rc \in Cells(MatrixDim) :
                     tgt[rc[1]][rc[2]] = Unlit /\ cur[rc[1]][rc[2]] # Unlit})

\* PIXEL: the number of cells whose colours are the same.
pxOK(cur, tgt) ==
    Cardinality({rc \in Cells(PixelDim) :
                   cur[rc[1]][rc[2]] = tgt[rc[1]][rc[2]]})

\* Faulty variant of pixelFactor: rounded to the nearest integer.
pixelFactorRounded(ok) == (ok * 5 + 16) \div 32

\* Math.floor((pxOK * 5) / 32)
pixelFactor(ok) == (ok * 5) \div 32

\* Faulty variant of clamp: the sum as it is.
unclamped(sum) == sum

\* Math.max(0, score)
clamp(sum) == Max(0, sum)

\* calculateScore: the score in quarter points, or None when reading a
\* grid throws.
calculateScore(s) ==
    IF s.mode = "MAZE" THEN Some(Points(s.mazeScore))
    ELSE IF s.currentGrid = None \/ s.targetGrid = None THEN Some(0)
    ELSE
      LET cur == Get(s.currentGrid)
          tgt == Get(s.targetGrid)
      IN  CASE s.mode = "MATRIX" ->
                 IF readThrows(tgt, MatrixDim) \/ readThrows(cur, MatrixDim) THEN None
                 ELSE Some(clamp(matrixSum(cur, tgt)))
            [] s.mode = "PIXEL" ->
                 IF readThrows(cur, PixelDim) \/ readThrows(tgt, PixelDim) THEN None
                 ELSE Some(pixelFactor(pxOK(cur, tgt)))
            [] OTHER -> Some(0)

\* The Load button's reader callback on a file that is not a saved maze: a
\* name ending in .mtx switches the mode, then the text is loaded as the
\* program and as the objective.
handleLoad(s, extension, text) ==
    loadProgram(IF extension = "mtx" THEN [s EXCEPT !.mode = "MATRIX"] ELSE s, text, TRUE)

\* ------------------------------------------------------------------ inputs
SeqsUpTo(lines, n) == UNION {[1..k -> lines] : k \in 0..n}

TableLines ==
    { DimLine(4, 2), PaintLine(2, "R", 0, 0), PaintLine(2, "G", 3, 1),
      PaintLine(1, "B", 4, 0) }
GridLines ==
    { DimLine(3, 3), PaintLine(2, "R", 1, 1), PaintLine(3, "G", 2, 1),
      PaintLine(1, "B", 0, 3) }
MatrixLines ==
    { ToggleLine("+", "2"), ToggleLine("-", "2"), ToggleLine("+", "B"),
      ToggleLine("-", "B") }
PixelLines ==
    { PixelLine(<<Rgb({"R", "G"}), Plus, Off, Plus, Rgb({"B"})>>),
      PixelLine(<<Loop(2, <<Rgb({"R"}), Plus, Rgb({"B"})>>)>>),
      PixelLine(<<Loop(17, <<Rgb({"G"})>>)>>),
      BlankLine }
MazeLines == { RuotaLine(1), MuoviLine(1), MuoviLine(2) }

\* PIXEL programs of one loop: "0 * ( R ) + B", "2 * ( 2 * ( R ) + Off )"
\* and "16 * ( R )".
LoopPrograms ==
    { <<PixelLine(<<Loop(0, <<Rgb({"R"})>>), Plus, Rgb({"B"})>>)>>,
      <<PixelLine(<<Loop(2, <<Loop(2, <<Rgb({"R"})>>), Plus, Off>>)>>)>>,
      <<PixelLine(<<Loop(16, <<Rgb({"R"})>>)>>)>> }

\* The program of the scenario "5#5", "3 R 0 0", "2 G 3 3".
ScenarioProgram == <<DimLine(5, 5), PaintLine(3, "R", 0, 0), PaintLine(2, "G", 3, 3)>>

\* GRID programs with two paints in a row: count 2, dx 1, dy 0 after a first
\* paint, and a paint with a negative delta.
GridProgram == <<DimLine(4, 4), PaintLine(2, "R", 1, 1), PaintLine(2, "G", 1, 0)>>
GridBackProgram == <<DimLine(3, 3), PaintLine(1, "R", 3, 1), PaintLine(2, "G", -2, 1)>>

\* MAZE programs of two lines: step back, move and turn round.
MazeProgram == <<RuotaLine(2), MuoviLine(1)>>
MazeBackProgram == <<MuoviLine(1), RuotaLine(2)>>

\* The program texts the environment loads in mode m.
Texts(m) ==
    CASE m = "TABLE" -> SeqsUpTo(TableLines, MaxLines) \cup {ScenarioProgram}
      [] m = "GRID" -> SeqsUpTo(GridLines, MaxLines) \cup {GridProgram, GridBackProgram}
      [] m = "MATRIX" -> SeqsUpTo(MatrixLines, MaxLines)
      [] m = "PIXEL" -> SeqsUpTo(PixelLines, MaxLines) \cup LoopPrograms
      [] OTHER -> SeqsUpTo(MazeLines, 1) \cup {MazeProgram, MazeBackProgram}

\* The files the Load button is given: their extension and their text.
FileExtensions == {"mtx", "tbl"}
FileTexts ==
    { <<JunkLine>>,
      <<ToggleLine("+", "2"), ToggleLine("-", "B")>>,
      <<DimLine(4, 2), ToggleLine("+", "B")>>,
      <<DimLine(4, 2), PaintLine(2, "R", 0, 0), PaintLine(2, "G", 3, 1)>>,
      <<DimLine(4, 2), PaintLine(1, "B", 4, 0), PaintLine(2, "R", 0, 0)>>,
      <<DimLine(3, 3), PaintLine(2, "R", 1, 1), PaintLine(3, "G", 0, 1),
        PaintLine(1, "B", 0, 1)>>,
      <<DimLine(0, 3), PaintLine(1, "B", 0, 0)>>,
      <<DimLine(17, 3)>>,
      <<DimLine(2, 2), DimLine(2, 2)>> }

\* The patterns of draws: rows from..(from + n - 1) lit, columns lit, a
\* mixture, and every column lit with rows cleared after.
LitRows(from, n) == [i \in 1..n |-> Draw(TRUE, from + i - 1, "+")]
LitCols(from, n) == [i \in 1..n |-> Draw(FALSE, from + i - 1, "+")]
ClearedRows(from, n) == [i \in 1..n |-> Draw(TRUE, from + i - 1, "-")]
Patterns ==
    { LitRows(0, 5), LitRows(2, 6), LitCols(3, 5),
      LitRows(1, 4) \o LitCols(6, 2),
      LitCols(0, 8) \o ClearedRows(5, 3) }

\* The numbers of commands drawn (30 to 60) and the attempts of a source.
NumCommands == {30, 33, 60}
MaxAttempts == 2
RandomTargets ==
    {[numCommands |-> n, attempts |-> a] :
        n \in NumCommands, a \in UNION {[1..k -> Patterns] : k \in 1..MaxAttempts}}

\* What generateMatrixTarget returns on the random sources.
GeneratedTargets ==
    {generateMatrixTarget(rnd, 1) : rnd \in RandomTargets} \ {None}

\* The random sources of generatePixelTarget: the rows repeat one draw of a
\* template, with colour strings from the lists the source draws from, or
\* alternate between two.
RowPatterns ==
    { <<RowDraw("fill", <<Rgb({"R", "G", "B"})>>)>>,
      <<RowDraw("alternate", <<Rgb({"R", "G"}), LetterO>>)>>,
      <<RowDraw("chunks", <<Rgb({"R"}), LetterO, Rgb({"G", "B"}), Rgb({"B"})>>)>>,
      <<RowDraw("split", <<Rgb({"B"}), Word>>)>>,
      <<RowDraw("fill", <<Rgb({"G"})>>),
        RowDraw("alternate", <<Rgb({"B"}), Rgb({"R", "B"})>>)>>,
      <<RowDraw("split", <<Rgb({"R"}), Word>>),
        RowDraw("chunks", <<Rgb({"R", "B"}), Rgb({"R"}), LetterO, Rgb({"G"})>>)>> }
PixelRandoms ==
    {[r \in 1..PixelDim |-> pattern[((r - 1) % Len(pattern)) + 1]] : pattern \in RowPatterns}

\* What generatePixelTarget returns on the random sources.
GeneratedPixelTargets == {generatePixelTarget(rnd) : rnd \in PixelRandoms}

\* The random sources of generateRandomTarget and what it returns on them:
\* 3 rows of 3 columns with one-cell strips, and 12 of 12 with long ones.
StripDraws(color, row, col, count) == <<StripDraw(color, row, col, count)>>
TableRandoms ==
    { [rows |-> 0, cols |-> 0, numCommands |-> 0, strips |-> StripDraws(0, 0, 0, 0)],
      [rows |-> 999, cols |-> 999, numCommands |-> 999,
       strips |-> StripDraws(500, 999, 500, 999) \o StripDraws(999, 0, 0, 500)] }
GeneratedTableTargets == {generateRandomTarget(rnd) : rnd \in TableRandoms}

\* The random sources of generateChallengeTarget: the least grid with one
\* strip of one cell in each selected row; the greatest grid with two strips
\* in each selected row and an extra strip on a row that was not selected;
\* a grid between the two whose extra strips fall on selected rows.
RowStrip(color, start, count) == [color |-> color, start |-> start, count |-> count]
ChallengeRandoms ==
    { [rows |-> 0, cols |-> 0, order |-> "kept",
       strips |-> <<RowStrip(0, 0, 0)>>, extraStrips |-> <<>>],
      [rows |-> 999, cols |-> 999, order |-> "reversed",
       strips |-> <<RowStrip(500, 999, 999), RowStrip(0, 999, 0)>>,
       extraStrips |-> StripDraws(999, 0, 0, 999)],
      [rows |-> 500, cols |-> 500, order |-> "rotated",
       strips |-> <<RowStrip(999, 500, 500), RowStrip(500, 0, 999)>>,
       extraStrips |-> StripDraws(0, 500, 999, 0) \o StripDraws(500, 500, 0, 999)] }

\* The goals of generateMatrixTarget that a challenge draws: those of 30 commands.
ChallengeGoals == {goal \in GeneratedTargets : Len(Get(goal).code) = 30}

\* The clock: Date.now() at the first challenge, and the delays after which
\* the challenge button is pressed again (10 and 30 minutes).
Epoch == LOCKOUT_PERIOD
Delays == {LOCKOUT_PERIOD \div 3, LOCKOUT_PERIOD}
MaxLockouts == 1
Nows(s) ==
    IF s.lastChallengeTime = None THEN {Epoch}
    ELSE {now \in {Get(s.lastChallengeTime) + d : d \in Delays} :
            now <= Epoch + MaxLockouts * LOCKOUT_PERIOD}

\* What the generators draw for one startChallenge call in the store's mode.
ChallengeDraws(s) ==
    {[matrix |-> Get(goal), challenge |-> rnd, maze |-> CHOOSE m \in RandomSources : TRUE] :
        goal \in IF s.mode = "MATRIX" THEN ChallengeGoals
                 ELSE {CHOOSE g \in ChallengeGoals : TRUE},
        rnd \in IF s.mode = "MATRIX" THEN {CHOOSE r \in ChallengeRandoms : TRUE}
                ELSE ChallengeRandoms}

\* The texts typed into the editor during a challenge.
ChallengeTexts(m) ==
    CASE m = "TABLE" -> {<<DimLine(4, 2), PaintLine(2, "R", 0, 0)>>}
      [] m = "GRID" -> {GridProgram}
      [] m = "MATRIX" -> {<<ToggleLine("+", "2"), ToggleLine("+", "B")>>}
      [] OTHER -> {<<PixelLine(<<Loop(2, <<Rgb({"R"}), Plus, Off>>)>>)>>}

\* The modes setMode switches between; MAZE has a specification of its own.
PlainModes == {"TABLE", "GRID", "MATRIX", "PIXEL"}

\* The random sources an operation may consume: one when it generates no maze.
Randoms(s, forceNewMaze) ==
    IF s.mode = "MAZE" /\ (s.mazeState = None \/ forceNewMaze) THEN RandomSources
    ELSE {CHOOSE rnd \in RandomSources : TRUE}

Did(op) == hist' = [base |-> op, steps |-> 0] /\ pre' = None

\* ----------------------------------------------------------------- actions
LoadProgram ==
    \E code \in Texts(mode) :
        /\ Set(loadProgram(S, code, FALSE))
        /\ Did(IF loadProgram(S, code, FALSE).error = None THEN "loadProgram"
               ELSE "loadProgram rejected")

Reset ==
    \E forceNewMaze \in BOOLEAN :
      \E rnd \in Randoms(S, forceNewMaze) :
        /\ Set(reset(S, forceNewMaze, rnd))
        /\ Did("reset")

Run ==
    \E rnd \in Randoms(S, FALSE) :
        /\ Set(run(S, rnd))
        /\ Did("run")

Stop ==
    /\ Set(stop(S))
    /\ Did("stop")

Step ==
    /\ hist.steps < MaxSteps
    /\ Set(step(S))
    /\ hist' = [hist EXCEPT !.steps = @ + 1]
    /\ pre' = Some(S)

\* The interval that calls step() while the program is running, on a program
\* of at most 16 lines.
IntervalStep ==
    /\ isRunning
    /\ hist.steps < PixelDim
    /\ Set(step(S))
    /\ hist' = [hist EXCEPT !.steps = @ + 1]
    /\ pre' = Some(S)

SetMode ==
    /\ ~isChallengeActive
    /\ \E m \in PlainModes :
      \E rnd \in Randoms([S EXCEPT !.mode = m], FALSE) :
        /\ Set(setMode(S, m, rnd))
        /\ Did("setMode")

LoadFile ==
    /\ ~isChallengeActive
    /\ \E extension \in FileExtensions, text \in FileTexts :
        /\ Set(handleLoad(S, extension, text))
        /\ Did(IF handleLoad(S, extension, text).error = None THEN "handleLoad"
               ELSE "handleLoad rejected")

\* The New Goal button in MATRIX mode.
NewGoal ==
    /\ mode = "MATRIX"
    /\ ~isChallengeActive
    /\ \E goal \in GeneratedTargets :
         Set(setTargetGrid(S, Get(goal).grid, Some(Get(goal).code)))
    /\ Did("setTargetGrid")

\* The New Goal button in MAZE mode.
NewMaze ==
    /\ mode = "MAZE"
    /\ ~isChallengeActive
    /\ \E rnd \in MazeRandoms : Set(reset(S, TRUE, rnd))
    /\ Did("reset(true)")

\* The New Goal button in PIXEL mode.
NewPixelGoal ==
    /\ mode = "PIXEL"
    /\ ~isChallengeActive
    /\ \E goal \in GeneratedPixelTargets :
         Set(setTargetGrid(S, goal.grid, Some(goal.code)))
    /\ Did("setTargetGrid")

\* The New Goal button in TABLE and GRID mode.
NewTableGoal ==
    /\ mode \in {"TABLE", "GRID"}
    /\ ~isChallengeActive
    /\ \E grid \in GeneratedTableTargets : Set(setTargetGrid(S, grid, None))
    /\ Did("setTargetGrid")

\* The challenge button: it starts a challenge when none is active and
\* stops the active one.
StartChallenge ==
    /\ ~isChallengeActive
    /\ \E now \in Nows(S), rnd \in ChallengeDraws(S) :
         /\ Set(startChallenge(S, now, rnd))
         /\ Did(IF startChallenge(S, now, rnd).isChallengeActive THEN "startChallenge"
                ELSE "startChallenge refused")

StopChallenge ==
    /\ isChallengeActive
    /\ Set(stopChallenge(S))
    /\ Did("stopChallenge")

\* The one-second interval, which runs while a challenge is active; the
\* history counts the ticks that follow startChallenge with no other
\* operation in between.
TickTimer ==
    /\ isChallengeActive
    /\ Set(tickTimer(S))
    /\ hist' = IF hist.base = "startChallenge" THEN [hist EXCEPT !.steps = @ + 1] ELSE hist
    /\ pre' = None

\* The editor's text is loaded as the program; the editor is read-only
\* while the store is locked.
EditProgram ==
    /\ ~isLocked
    /\ \E code \in ChallengeTexts(mode) :
         /\ Set(loadProgram(S, code, FALSE))
         /\ Did(IF loadProgram(S, code, FALSE).error = None THEN "loadProgram"
                ELSE "loadProgram rejected")

\* The code of the goal is loaded as a program, the objective derived from it.
LoadSolution ==
    /\ solutionCode # None
    /\ Set(loadProgram(S, Get(solutionCode), TRUE))
    /\ Did(IF loadProgram(S, Get(solutionCode), TRUE).error = None THEN "loadProgram"
           ELSE "loadProgram rejected")

\* ----------------------------------------------------------- specifications
Init ==
    /\ Holds(InitialStore)
    /\ hist = [base |-> "create", steps |-> 0]
    /\ pre = None

Next == LoadProgram \/ Reset \/ Run \/ Stop \/ Step \/ SetMode

Spec == Init /\ [][Next]_vars

\* MAZE mode: the store after setMode("MAZE") on the fresh store.
MazeInit ==
    /\ \E rnd \in RandomSources : Holds(setMode(InitialStore, "MAZE", rnd))
    /\ hist = [base |-> "setMode", steps |-> 0]
    /\ pre = None

MazeNext == LoadProgram \/ Reset \/ Run \/ Stop \/ Step

MazeSpec == MazeInit /\ [][MazeNext]_vars

\* MAZE mode with the New Goal button: every maze of the wider random
\* sources.
MazeGoalNext == NewMaze \/ Reset

MazeGoalSpec == MazeInit /\ [][MazeGoalNext]_vars

\* Programs and objectives that come from files.
FileNext == LoadFile \/ SetMode \/ Reset \/ Run \/ Step

FileSpec == Init /\ [][FileNext]_vars

\* MATRIX mode with generated objectives: the store after setMode("MATRIX").
GoalInit ==
    /\ Holds(setMode(InitialStore, "MATRIX", CHOOSE rnd \in RandomSources : TRUE))
    /\ hist = [base |-> "setMode", steps |-> 0]
    /\ pre = None

GoalNext == NewGoal \/ LoadSolution \/ Run

GoalSpec == GoalInit /\ [][GoalNext]_vars

\* PIXEL mode with generated objectives: the store after setMode("PIXEL").
PixelGoalInit ==
    /\ Holds(setMode(InitialStore, "PIXEL", CHOOSE rnd \in RandomSources : TRUE))
    /\ hist = [base |-> "setMode", steps |-> 0]
    /\ pre = None

PixelGoalNext == NewPixelGoal \/ LoadSolution \/ Run \/ IntervalStep

PixelGoalSpec == PixelGoalInit /\ [][PixelGoalNext]_vars

\* Challenges: the challenge button, the timer, the New Goal button and the
\* Reset button, in TABLE mode (the fresh store) and in MATRIX mode.
ChallengeInit ==
    /\ \/ Holds(InitialStore)
       \/ \E rnd \in Randoms([InitialStore EXCEPT !.mode = "MATRIX"], FALSE) :
             Holds(setMode(InitialStore, "MATRIX", rnd))
    /\ hist = [base |-> IF mode = "MATRIX" THEN "setMode" ELSE "create", steps |-> 0]
    /\ pre = None

ChallengeNext ==
    StartChallenge \/ StopChallenge \/ TickTimer \/ NewTableGoal \/ NewGoal \/ Reset

ChallengeSpec == ChallengeInit /\ [][ChallengeNext]_vars

\* Programs written and run during a challenge, before the timer ticks.
SessionNext ==
    StartChallenge \/ StopChallenge \/ SetMode \/ EditProgram \/ Reset \/ Run \/ Step

SessionSpec == Init /\ [][SessionNext]_vars

\* ------------------------------------------------- the last step() call
\* The last operation was step(); Before is the store it was called on.
Stepped == pre # None
Before == Get(pre)

\* step() found the run flag set and a command at pc.
SteppedOn == Stepped /\ Before.isRunning /\ Before.pc < Len(Before.commands)

\* The command step() started with.
FirstCmd == Before.commands[Before.pc + 1]

\* The index after the batch that starts at index p: the first index whose
\* command has another line number, or the number of commands.
BatchEnd(cmds, p) ==
    CHOOSE j \in (p + 1)..Len(cmds) :
        /\ \A k \in p..(j - 1) : cmds[k + 1].lineNumber = cmds[p + 1].lineNumber
        /\ j = Len(cmds) \/ cmds[j + 1].lineNumber # cmds[p + 1].lineNumber

\* What a flattened PIXEL command leaves in the cell under the cursor.
PixelColor(cmd) == IF cmd.action = "PAINT" THEN cmd.color ELSE Unlit

\* C1: when isRunning is true and pc is below the number of commands, a
\* step() in which no command fails leaves pc at the first index whose
\* command has another line number than commands[pc] (or at the number of
\* commands), having executed every command in between in order: in PIXEL
\* mode the k-th command of the line wrote the k-th cell from the start of
\* the line's row, and the cursor is one cell past the last.
C1_StepRunsTheWholeLine ==
    (SteppedOn /\ error = None) =>
        /\ pc = BatchEnd(Before.commands, Before.pc)
        /\ commands = Before.commands
        /\ mode = "PIXEL" =>
             /\ \A k \in Before.pc..(pc - 1) :
                  LET at == PixelDim * FirstCmd.lineNumber + (k - Before.pc)
                  IN  at \div PixelDim < PixelDim =>
                        CellAt(Get(currentGrid), at \div PixelDim, at % PixelDim)
                          = PixelColor(commands[k + 1])
             /\ PixelDim * lastPos.r + lastPos.c
                  = PixelDim * FirstCmd.lineNumber + (pc - Before.pc)

\* A PIXEL step ran a line of three commands and stopped before the next line.
C1_Witness ==
    /\ SteppedOn /\ error = None /\ mode = "PIXEL"
    /\ pc = Before.pc + 3 /\ pc < Len(commands)
    /\ CellAt(Get(currentGrid), FirstCmd.lineNumber, 2) = "B"

\* C2: in a state where error is set, completionStatus is failure or pc has
\* reached the end of the commands, step() changes neither pc, the current
\* grid, the maze state nor the scores.
C2_NoAdvanceOnceEnded ==
    (Stepped /\ (\/ Before.error # None
                 \/ Before.completionStatus = "failure"
                 \/ Before.pc >= Len(Before.commands))) =>
        /\ pc = Before.pc
        /\ currentGrid = Before.currentGrid
        /\ mazeState = Before.mazeState
        /\ mazeScore = Before.mazeScore
        /\ totalMovements = Before.totalMovements

\* C3: a step() in which a command fails leaves isRunning false,
\* completionStatus failure, a message in error and pc at the failing
\* command: a command of the line step() started with, which fails again on
\* the state the step left; the next step() call is idle and retries nothing.
C3_FailedStepHalts ==
    /\ (SteppedOn /\ error # None) =>
         /\ ~isRunning
         /\ completionStatus = "failure"
         /\ Get(error).text # ""
         /\ Before.pc <= pc /\ pc < Len(commands)
         /\ commands[pc + 1].lineNumber = FirstCmd.lineNumber
         /\ execCommand(mode, commands[pc + 1],
                        [mazeState |-> mazeState, mazeScore |-> mazeScore,
                         grid |-> currentGrid, lastPos |-> lastPos,
                         totalMovements |-> totalMovements, pc |-> pc,
                         error |-> None]).error # None
    /\ (Stepped /\ ~Before.isRunning) => S = Before

\* The second command of a TABLE program failed on the column bound.
C3_Witness ==
    /\ SteppedOn /\ mode = "TABLE" /\ error # None
    /\ Get(error).text = "Runtime Error: Filling exceeds column bounds."
    /\ pc = 1 /\ ~isRunning /\ completionStatus = "failure"

\* ------------------------------------------------------- TABLE and GRID
\* The grid step() started on, and the paint rule of TABLE and GRID stated on
\* it: count cells of a row from (row, col), inside the grid.
GridBefore == Get(Before.currentGrid)

Paintable(grid, row, col, count) ==
    /\ 0 <= row /\ row < Len(grid)
    /\ 0 <= col /\ col < Len(grid[1])
    /\ col + count <= Len(grid[1])

\* Exactly the cells (row, col) .. (row, col + count - 1) took color.
PaintedExactly(old, new, row, col, count, color) ==
    /\ Len(new) = Len(old)
    /\ \A r \in 0..(Len(old) - 1) :
         /\ Len(new[r + 1]) = Len(old[r + 1])
         /\ \A c \in 0..(Len(old[r + 1]) - 1) :
              new[r + 1][c + 1] =
                IF r = row /\ col <= c /\ c <= col + count - 1 THEN color
                ELSE old[r + 1][c + 1]

\* step() started with a paint command of the given type on a grid.
SteppedOnPaint(m, type) ==
    /\ SteppedOn /\ mode = m
    /\ FirstCmd.type = type
    /\ Before.currentGrid # None

\* C4: in TABLE mode a step that executes Color{count, color, row, col} with
\* 0 <= row < rows, 0 <= col < cols and col + count <= cols sets exactly the
\* cells (row, col) .. (row, col + count - 1) to color, leaves every other
\* cell unchanged and sets the last-painted position to (row, col + count - 1).
C4_ColorPaintsItsCells ==
    (SteppedOnPaint("TABLE", "COLOR")
       /\ Paintable(GridBefore, FirstCmd.row, FirstCmd.col, FirstCmd.count)) =>
        /\ error = None
        /\ currentGrid # None
        /\ PaintedExactly(GridBefore, Get(currentGrid), FirstCmd.row, FirstCmd.col,
                          FirstCmd.count, FirstCmd.color)
        /\ lastPos = [r |-> FirstCmd.row, c |-> FirstCmd.col + FirstCmd.count - 1]

\* "2 G 3 3" was painted on a 5 x 5 grid that held "3 R 0 0".
C4_Witness ==
    /\ SteppedOnPaint("TABLE", "COLOR")
    /\ FirstCmd.count = 2 /\ FirstCmd.color = "G" /\ FirstCmd.row = 3 /\ FirstCmd.col = 3
    /\ Len(GridBefore) = 5 /\ GridBefore[1][1] = "R"
    /\ Get(currentGrid)[4][5] = "G" /\ Get(currentGrid)[1][3] = "R"
    /\ lastPos = [r |-> 3, c |-> 4]

\* C5: in TABLE mode a step whose Color command has row or col out of
\* bounds, or col + count greater than the column count, halts with a runtime
\* error and leaves the grid and the last-painted position as they were.
C5_FailedColorLeavesGrid ==
    (SteppedOnPaint("TABLE", "COLOR")
       /\ ~Paintable(GridBefore, FirstCmd.row, FirstCmd.col, FirstCmd.count)) =>
        /\ error # None
        /\ ~isRunning
        /\ completionStatus = "failure"
        /\ currentGrid = Before.currentGrid
        /\ lastPos = Before.lastPos

\* A Color command inside the grid failed because col + count passes the
\* last column.
C5_Witness ==
    /\ SteppedOnPaint("TABLE", "COLOR")
    /\ FirstCmd.row < Len(GridBefore) /\ FirstCmd.col < Len(GridBefore[1])
    /\ FirstCmd.col + FirstCmd.count > Len(GridBefore[1])
    /\ error # None /\ currentGrid = Before.currentGrid

\* The target of a GridColor command: the last position moved by (dy, dx).
GridTarget == [r |-> Before.lastPos.r + FirstCmd.deltaY,
               c |-> Before.lastPos.c + FirstCmd.deltaX]

\* C7: in GRID mode a step executing GridColor{count, color, dx, dy} paints
\* from (lastPos.row + dy, lastPos.col + dx) under the paint and bounds rule
\* of TABLE, and when it succeeds totalMovements has grown by exactly
\* |dx| + |dy| + max(count - 1, 0).
C7_GridColorMovesAndCounts ==
    SteppedOnPaint("GRID", "GRID_COLOR") =>
        IF Paintable(GridBefore, GridTarget.r, GridTarget.c, FirstCmd.count)
        THEN /\ error = None
             /\ PaintedExactly(GridBefore, Get(currentGrid), GridTarget.r, GridTarget.c,
                               FirstCmd.count, FirstCmd.color)
             /\ lastPos = [r |-> GridTarget.r, c |-> GridTarget.c + FirstCmd.count - 1]
             /\ totalMovements = Before.totalMovements
                  + (IF FirstCmd.deltaX < 0 THEN -FirstCmd.deltaX ELSE FirstCmd.deltaX)
                  + (IF FirstCmd.deltaY < 0 THEN -FirstCmd.deltaY ELSE FirstCmd.deltaY)
                  + (IF FirstCmd.count - 1 > 0 THEN FirstCmd.count - 1 ELSE 0)
        ELSE /\ error # None
             /\ currentGrid = Before.currentGrid
             /\ lastPos = Before.lastPos

\* After a first paint, count 2 with dx 1 and dy 0 added 2 to totalMovements.
C7_Witness ==
    /\ SteppedOnPaint("GRID", "GRID_COLOR")
    /\ FirstCmd.count = 2 /\ FirstCmd.deltaX = 1 /\ FirstCmd.deltaY = 0
    /\ Before.lastPos = [r |-> 0, c |-> 1]
    /\ error = None
    /\ totalMovements = Before.totalMovements + 2
    /\ lastPos = [r |-> 0, c |-> 3]

\* C6: in TABLE mode, after the load of the program "5#5", "3 R 0 0",
\* "2 G 3 3" followed by two step() calls, the grid has row 0 columns 0-2 = R
\* and row 3 columns 3-4 = G, error is none and completionStatus is idle.
C6_LoadThenTwoSteps ==
    (mode = "TABLE" /\ sourceCode = ScenarioProgram
       /\ hist = [base |-> "loadProgram", steps |-> 2]) =>
        /\ currentGrid # None
        /\ \A c \in 0..2 : CellAt(Get(currentGrid), 0, c) = "R"
        /\ \A c \in 3..4 : CellAt(Get(currentGrid), 3, c) = "G"
        /\ error = None
        /\ completionStatus = "idle"

\* ----------------------------------------------------------------- MAZE
\* step() started with a Move; the turtle and the maze it started on.
SteppedOnMove ==
    /\ SteppedOn /\ mode = "MAZE"
    /\ FirstCmd.type = "MUOVI"
    /\ Before.mazeState # None

MazeBefore == Get(Before.mazeState)

\* The cell k single-cell advances ahead of the turtle (0: East, 90: North,
\* 180: West, 270: South).
CellOnPath(k) ==
    LET t == MazeBefore.turtle
    IN  CASE t.dir = 0 -> [r |-> t.r, c |-> t.c + k]
          [] t.dir = 90 -> [r |-> t.r - k, c |-> t.c]
          [] t.dir = 180 -> [r |-> t.r, c |-> t.c - k]
          [] OTHER -> [r |-> t.r + k, c |-> t.c]

Inside(p) == 0 <= p.r /\ p.r < MazeDim /\ 0 <= p.c /\ p.c < MazeDim

\* The wall flag of the edge the turtle crosses when it leaves CellOnPath(k).
WallOnPath(k) ==
    LET p == CellOnPath(k)
        d == MazeBefore.turtle.dir
    IN  /\ Inside(p)
        /\ LET w == MazeBefore.walls[p.r + 1][p.c + 1]
           IN  CASE d = 0 -> w.right [] d = 90 -> w.top [] d = 180 -> w.left
                 [] OTHER -> w.bottom

\* The Move makes its first s advances: no wall and a cell beyond, each time.
Advances(s) == \A k \in 0..(s - 1) : ~WallOnPath(k) /\ Inside(CellOnPath(k + 1))

\* C8: in MAZE mode, whenever a Move reaches an edge whose wall flag is set
\* in the current cell for the current heading, the step raises an error and
\* the turtle is where it was before the step, also when the wall is met
\* after cells of the same Move were crossed.
C8_WallStopsTurtleInPlace ==
    (SteppedOnMove
       /\ \E s \in 0..(FirstCmd.steps - 1) : Advances(s) /\ WallOnPath(s)) =>
        /\ error # None
        /\ ~isRunning
        /\ completionStatus = "failure"
        /\ mazeState # None
        /\ Get(mazeState).turtle = MazeBefore.turtle

\* A Move of two cells crossed one cell and met a wall inside the maze.
C8_Witness ==
    /\ SteppedOnMove /\ FirstCmd.steps = 2
    /\ Advances(1) /\ WallOnPath(1) /\ Inside(CellOnPath(2))
    /\ error # None
    /\ Get(error).text = "Hai sbattuto contro un muro!"
    /\ Get(mazeState).turtle = MazeBefore.turtle

\* C9: in MAZE mode a Move that takes the turtle past the outer boundary of
\* the grid (no cell beyond, edge not walled) is a success condition: the
\* run ends with completionStatus = success and no error is recorded.
C9_LeavingTheGridIsSuccess ==
    (SteppedOnMove
       /\ \E s \in 0..(FirstCmd.steps - 1) :
            Advances(s) /\ ~WallOnPath(s) /\ ~Inside(CellOnPath(s + 1))) =>
        /\ completionStatus = "success"
        /\ error = None

\* The value of the items whose collected flag is set (leaf 1, carrot 2).
RECURSIVE CollectedValue(_)
CollectedValue(items) ==
    IF items = <<>> THEN 0
    ELSE (IF ~Head(items).collected THEN 0
          ELSE IF Head(items).type = "leaf" THEN 1 ELSE 2)
         + CollectedValue(Tail(items))

\* The last step() call was a Move that ran to its end and entered cell (r, c).
Entered(r, c) ==
    /\ SteppedOnMove /\ error = None
    /\ \E k \in 1..FirstCmd.steps : CellOnPath(k) = [r |-> r, c |-> c]

\* C10: in every MAZE state mazeScore equals the sum of the values of the
\* items whose collected flag is set (leaf = 1, carrot = 2); a step() sets
\* the flag of exactly the items whose cell the turtle entered in a
\* successful Move, and reset() and run() clear every flag.
C10_ScoreIsCollectedValue ==
    mazeState # None =>
        LET items == Get(mazeState).items
        IN  /\ mazeScore = CollectedValue(items)
            /\ (Stepped /\ Before.mazeState # None) =>
                 \A i \in 1..Len(items) :
                     items[i].collected <=>
                        \/ MazeBefore.items[i].collected
                        \/ Entered(items[i].r, items[i].c)
            /\ hist \in {[base |-> "reset", steps |-> 0], [base |-> "run", steps |-> 0]} =>
                 \A i \in 1..Len(items) : ~items[i].collected

\* A Move collected a carrot while a leaf was already collected.
C10_Witness ==
    /\ SteppedOnMove /\ error = None
    /\ \E i, j \in 1..Len(MazeBefore.items) :
         /\ MazeBefore.items[i].collected /\ MazeBefore.items[i].type = "leaf"
         /\ ~MazeBefore.items[j].collected /\ Get(mazeState).items[j].collected
         /\ MazeBefore.items[j].type = "carrot"
    /\ mazeScore = Before.mazeScore + 2

\* ------------------------------------------------------------------ MATRIX
\* g is a grid of MatrixDim rows of MatrixDim cells.
IsMatrixGrid(g) ==
    /\ g # None
    /\ Len(Get(g)) = MatrixDim
    /\ \A r \in 1..MatrixDim : Len(Get(g)[r]) = MatrixDim

\* step() started in MATRIX mode with a MatrixToggle command.
SteppedOnToggle == SteppedOn /\ mode = "MATRIX" /\ FirstCmd.type = "MATRIX"

\* The cell (r, c) lies on the row or column the command names.
OnLine(cmd, r, c) == IF cmd.isRow THEN r = cmd.index ELSE c = cmd.index

\* C11: in MATRIX mode a step that executes MatrixToggle{op, isRow, index}
\* never fails; it sets the 8 cells of row index (isRow) or of column index
\* (not isRow) to the on-colour for op "+" and to unlit for op "-", and leaves
\* the other 56 cells as they were.
C11_ToggleSetsRowOrColumn ==
    SteppedOnToggle =>
        /\ error = None
        /\ IsMatrixGrid(Before.currentGrid)
        /\ IsMatrixGrid(currentGrid)
        /\ \A r, c \in 0..(MatrixDim - 1) :
              CellAt(Get(currentGrid), r, c) =
                IF OnLine(FirstCmd, r, c)
                THEN (IF FirstCmd.operation = "+" THEN "W" ELSE Unlit)
                ELSE CellAt(GridBefore, r, c)

\* ------------------------------------------------------------------- PIXEL
\* g is a grid of PixelDim rows of PixelDim cells.
IsPixelGrid(g) ==
    /\ g # None
    /\ Len(Get(g)) = PixelDim
    /\ \A r \in 1..PixelDim : Len(Get(g)[r]) = PixelDim

\* step() ran the PIXEL commands of one source line to the end.
SteppedOnPixelLine ==
    /\ SteppedOn /\ mode = "PIXEL" /\ error = None
    /\ IsPixelGrid(Before.currentGrid) /\ IsPixelGrid(currentGrid)

\* C12: in PIXEL mode a step over source line L writes only cells of screen
\* row L: the k-th flattened operation of the line (k from 0) leaves its
\* colour (Paint) or unlit (Skip) in cell (L, k) when L < 16 and k < 16, and
\* the operations with k >= 16 change no cell of the grid.
C12_PixelStepWritesItsRow ==
    SteppedOnPixelLine =>
        \A r, c \in 0..(PixelDim - 1) :
            CellAt(Get(currentGrid), r, c) =
              IF r = FirstCmd.lineNumber /\ c < pc - Before.pc
              THEN PixelColor(commands[Before.pc + c + 1])
              ELSE CellAt(GridBefore, r, c)

\* The tokens of a line with each loop "N * ( body )" of the line replaced by
\* its body written N times; loops inside the body stay as they are written.
RECURSIVE Times(_, _)
Times(toks, n) == IF n <= 0 THEN <<>> ELSE toks \o Times(toks, n - 1)

RECURSIVE WrittenOut(_)
WrittenOut(toks) ==
    IF toks = <<>> THEN <<>>
    ELSE IF Head(toks).t = "loop"
         THEN Times(Head(toks).body, Head(toks).count) \o WrittenOut(Tail(toks))
         ELSE <<Head(toks)>> \o WrittenOut(Tail(toks))

WrittenOutText(code) ==
    [i \in 1..Len(code) |->
        IF code[i].kind = "pixel" THEN PixelLine(WrittenOut(code[i].toks)) ELSE code[i]]

\* The store s holds the PIXEL program of its source text.
HoldsItsPixelText(s) ==
    /\ s.mode = "PIXEL"
    /\ loadProgram(s, s.sourceCode, FALSE).error = None
    /\ loadProgram(s, s.sourceCode, FALSE).commands = s.commands

\* C13: loading a PIXEL line "N * ( body )" gives the same flattened
\* operations as loading the line with body written N times, for N >= 0 and
\* loops inside loops, and a step over either line paints the same row; so
\* "16 * ( R )" paints what 16 separate R operations paint.
C13_LoopIsItsBodyRepeated ==
    /\ HoldsItsPixelText(S) =>
          LET written == loadProgram(S, WrittenOutText(sourceCode), FALSE)
          IN  written.error = None /\ written.commands = commands
    /\ (Stepped /\ HoldsItsPixelText(Before)) =>
          LET written == loadProgram(Before, WrittenOutText(Before.sourceCode), FALSE)
          IN  step([Before EXCEPT !.commands = written.commands]).currentGrid = currentGrid

\* The step over "16 * ( R )" has painted the 16 cells of row 0 red and no
\* other cell.
C13_Witness ==
    /\ SteppedOnPixelLine /\ HoldsItsPixelText(Before)
    /\ sourceCode = <<PixelLine(<<Loop(16, <<Rgb({"R"})>>)>>)>>
    /\ pc = 16
    /\ \A c \in 0..(PixelDim - 1) : CellAt(Get(currentGrid), 0, c) = "R"
    /\ CellAt(Get(currentGrid), 1, 0) = Unlit

\* ------------------------------------------------------------ load errors
\* The text has a second dimension line, or a paint line with no dimension
\* line before it.
DimLinesOf(code) == {i \in 1..Len(code) : code[i].kind = "dim"}
SecondDimLine(code) == Cardinality(DimLinesOf(code)) >= 2
PaintBeforeDim(code) ==
    \E i \in 1..Len(code) :
        code[i].kind = "paint" /\ \A j \in DimLinesOf(code) : j > i

\* At most one START in the commands and no paint command before it.
StartsOf(cmds) == {i \in 1..Len(cmds) : cmds[i].type = "START"}
WellOrdered(cmds) ==
    /\ Cardinality(StartsOf(cmds)) <= 1
    /\ \A i \in 1..Len(cmds) :
         cmds[i].type \in {"COLOR", "GRID_COLOR"} => \E j \in StartsOf(cmds) : j < i

\* C14: in TABLE or GRID mode loadProgram fails with a load-time error on a
\* text with a second dimension line or with a paint line before the first
\* dimension line, and the commands of every text it accepts hold at most one
\* START and no paint command before it.
C14_OneStartBeforeThePaints ==
    mode \in {"TABLE", "GRID"} =>
        /\ \A code \in Texts(mode) :
              LET loaded == loadProgram(S, code, FALSE)
              IN  /\ (SecondDimLine(code) \/ PaintBeforeDim(code)) =>
                        loaded.error # None /\ loaded.commands = commands
                  /\ loaded.error = None => WellOrdered(loaded.commands)
        /\ hist.base = "loadProgram" => WellOrdered(commands)

\* A TABLE load was rejected at the second dimension line, on line 2.
C14_Witness ==
    /\ mode = "TABLE" /\ hist.base = "loadProgram rejected"
    /\ error = Err("Multiple definition of table dimensions.", 2)

\* The store s holds the TABLE or GRID program of its source text.
HoldsItsTableText(s) ==
    /\ s.mode \in {"TABLE", "GRID"}
    /\ loadProgram(s, s.sourceCode, FALSE).error = None
    /\ loadProgram(s, s.sourceCode, FALSE).commands = s.commands

\* g has between 1 and MAX_ROWS rows of between 1 and MAX_COLS cells.
InRange(g) ==
    /\ 1 <= Len(g) /\ Len(g) <= MAX_ROWS
    /\ \A r \in 1..Len(g) : 1 <= Len(g[r]) /\ Len(g[r]) <= MAX_COLS

\* The text has a dimension line with 0 or more than 16 rows or columns.
DimOutOfRange(code) ==
    \E i \in DimLinesOf(code) :
        \/ code[i].rows < 1 \/ code[i].rows > MAX_ROWS
        \/ code[i].cols < 1 \/ code[i].cols > MAX_COLS

\* C15: a dimension line whose rows or cols is 0 or above 16 is rejected at
\* load time, so every grid made from a loaded TABLE/GRID program (by reset,
\* by the step over START, by the silent replay) has 1..16 rows and 1..16
\* columns.
C15_GridDimensionsInRange ==
    /\ mode \in {"TABLE", "GRID"} =>
          \A text \in FileTexts :
              DimOutOfRange(text) => loadProgram(S, text, TRUE).error # None
    /\ HoldsItsTableText(S) =>
          /\ currentGrid # None => InRange(Get(currentGrid))
          /\ (hist.base = "handleLoad" /\ targetGrid # None) => InRange(Get(targetGrid))

\* Loading the first n lines of the text in mode m is rejected.
PrefixRejected(code, n, m) ==
    parseProgram(SubSeq(code, 1, n), 0, m,
                 [error |-> None, commands |-> <<>>, startCmdFound |-> FALSE]).error # None

\* Line n (from 1) is the line at which loading the text in mode m fails.
OffendingLine(code, n, m) ==
    /\ 1 <= n /\ n <= Len(code)
    /\ ~PrefixRejected(code, n - 1, m)
    /\ PrefixRejected(code, n, m)

\* C16: a loadProgram that fails (syntax error, duplicate or oversized
\* dimension line, paint before the dimension line) leaves commands,
\* sourceCode, pc, the current grid, the target grid, the maze state and
\* completionStatus as they were and sets only error, to a message that
\* names the number, counted from 1, of the offending line.
C16_RejectedLoadKeepsTheProgram ==
    \A text \in FileTexts \cup Texts(mode), updateTarget \in BOOLEAN :
        LET loaded == loadProgram(S, text, updateTarget)
        IN  loaded.error # None =>
              /\ loaded = [S EXCEPT !.error = loaded.error]
              /\ Get(loaded.error).text # ""
              /\ OffendingLine(text, Get(loaded.error).line, mode)

\* A file was rejected on its second line while a program and an objective
\* were loaded.
C16_Witness ==
    /\ hist.base = "handleLoad rejected"
    /\ error # None /\ Get(error).line = 2
    /\ commands # <<>> /\ targetGrid # None /\ currentGrid # None

\* ------------------------------------------------------------ silent replay
\* The working state of a stepped execution that starts with no grid.
SteppedFromScratch ==
    [mazeState |-> None, mazeScore |-> 0, grid |-> None, lastPos |-> Pos(-1, -1),
     totalMovements |-> 0, pc |-> 0, error |-> None]

\* Stepped execution of the commands in which a command that raises a runtime
\* error is skipped: it leaves the grid and the last-painted position alone.
RECURSIVE SteppedSkipping(_, _)
SteppedSkipping(cmds, w) ==
    IF cmds = <<>> THEN w
    ELSE LET done == execTable(Head(cmds), w)
             next == IF done.error = None THEN done ELSE w
         IN  IF next.pc < 0 THEN next ELSE SteppedSkipping(Tail(cmds), next)

\* The same, except that a paint which starts inside the grid and does not
\* fit in its row is executed with its count cut to the cells left in the row.
Fitted(cmd, w) ==
    [cmd EXCEPT !.count = GridCols(Get(w.grid)) - paintTarget(cmd, w.lastPos).c]

RECURSIVE SteppedFitting(_, _)
SteppedFitting(cmds, w) ==
    IF cmds = <<>> THEN w
    ELSE LET cmd == Head(cmds)
             done == execTable(cmd, w)
             next == IF done.error = None THEN done
                     ELSE IF Get(done.error).text = "Runtime Error: Filling exceeds column bounds."
                     THEN execTable(Fitted(cmd, w), w)
                     ELSE w
         IN  IF next.pc < 0 THEN next ELSE SteppedFitting(Tail(cmds), next)

\* The objective was derived from the TABLE or GRID program that is loaded.
TargetOfTableProgram ==
    /\ hist.base = "handleLoad" /\ mode \in {"TABLE", "GRID"}
    /\ \E i \in 1..Len(commands) : commands[i].type = "START"

\* Some paint command of the loaded program fails when it is stepped: with a
\* position outside the grid, or with a fill past the last column.
RECURSIVE FailsWith(_, _, _)
FailsWith(cmds, w, text) ==
    IF cmds = <<>> THEN FALSE
    ELSE LET done == execTable(Head(cmds), w)
         IN  IF done.error # None
             THEN Get(done.error).text = text
                  \/ FailsWith(Tail(cmds), w, text)
             ELSE FailsWith(Tail(cmds), done, text)

\* C17 as stated: in the silent replay of loadProgram(code, true) every
\* TABLE/GRID paint command that raises a runtime error when it is stepped
\* (position out of bounds, col + count past the last column) is skipped: it
\* changes no cell of the derived grid and does not move the last-painted
\* position, and the replay goes on with the next command.
C17_ReplaySkipsFailingPaints ==
    TargetOfTableProgram =>
        targetGrid = SteppedSkipping(commands, SteppedFromScratch).grid

\* C17, amended: a paint command whose position is out of bounds is skipped;
\* a paint command that starts inside the grid and whose col + count passes
\* the last column paints the cells up to the end of the row and moves the
\* last-painted position to the last column; the replay goes on.
C17_ReplaySkipsOrCutsPaints ==
    TargetOfTableProgram =>
        targetGrid = SteppedFitting(commands, SteppedFromScratch).grid

\* The objective was derived from a program with a paint that does not fit in
\* its row, and holds cells of that paint.
C17_Witness ==
    /\ TargetOfTableProgram
    /\ FailsWith(commands, SteppedFromScratch, "Runtime Error: Filling exceeds column bounds.")
    /\ targetGrid # SteppedSkipping(commands, SteppedFromScratch).grid

\* C18: in MATRIX mode the grid is 8x8 whatever the program text says, a
\* dimension line included: the current grid after a load, after a reset and
\* after any number of steps, and the target grid that loadProgram(code, true)
\* derives, have exactly 8 rows of 8 cells.
C18_MatrixGridsAreEightByEight ==
    mode = "MATRIX" =>
        /\ hist.base \in {"handleLoad", "reset", "run"} => IsMatrixGrid(currentGrid)
        /\ hist.base = "handleLoad" => IsMatrixGrid(targetGrid)

\* ------------------------------------------------------- generated goals
\* C19: every grid generateMatrixTarget returns has 8 rows of 8 cells, of
\* which exactly 40 are lit, whatever was drawn.
C19_GoalHasFortyLitCells ==
    hist.base = "setTargetGrid" =>
        /\ IsMatrixGrid(targetGrid)
        /\ onCount(Get(targetGrid)) = 40

\* A goal of 33 commands that clears rows was returned.
C19_Witness ==
    /\ hist.base = "setTargetGrid" /\ targetGrid # None
    /\ Len(Get(solutionCode)) = 33
    /\ Get(solutionCode)[33].op = "-"
    /\ \A c \in 0..(MatrixDim - 1) :
         CellAt(Get(targetGrid), 0, c) = "W" /\ CellAt(Get(targetGrid), 7, c) = Unlit

\* C20: for every (grid, code) generateMatrixTarget returns, loading code in
\* MATRIX mode succeeds with no error and the silent replay of the loaded
\* commands gives a grid equal to grid cell for cell.
C20_GoalCodeReplaysToGoal ==
    (hist.base = "setTargetGrid" /\ mode = "MATRIX") =>
        LET loaded == loadProgram(S, Get(solutionCode), TRUE)
        IN  /\ loaded.error = None
            /\ Len(loaded.commands) = Len(Get(solutionCode))
            /\ executeCommandsSilently(loaded.commands, "MATRIX") = targetGrid
            /\ loaded.targetGrid = targetGrid

\* The code of a goal of 60 commands was loaded and replayed.
C20_Witness ==
    /\ hist.base = "loadProgram" /\ mode = "MATRIX" /\ error = None
    /\ solutionCode = Some(sourceCode)
    /\ Len(commands) = 60
    /\ targetGrid # None /\ onCount(Get(targetGrid)) = 40

\* ------------------------------------------------ generated PIXEL goals
\* C21: for every (grid, code) generatePixelTarget returns, whichever row
\* templates were drawn, loading code in PIXEL mode succeeds with no syntax
\* error and the silent replay of the loaded commands gives a grid equal to
\* grid cell for cell.
C21_PixelGoalCodeReplaysToGoal ==
    (hist.base = "setTargetGrid" /\ mode = "PIXEL") =>
        LET loaded == loadProgram(S, Get(solutionCode), TRUE)
        IN  /\ loaded.error = None
            /\ executeCommandsSilently(loaded.commands, "PIXEL") = targetGrid
            /\ loaded.targetGrid = targetGrid

\* ------------------------------------------------------------ challenges
\* Random sources of generateChallengeTarget beyond those the challenge
\* button draws in the model: every size at the ends and in the middle, every
\* order, one or two strips in a row, none to two extra strips.
ChallengeSources ==
    {[rows |-> r, cols |-> c, order |-> o, strips |-> s, extraStrips |-> e] :
        r \in {0, 500, 999}, c \in {0, 999}, o \in {"kept", "reversed", "rotated"},
        s \in {<<RowStrip(0, 0, 0)>>, <<RowStrip(500, 999, 999), RowStrip(0, 999, 0)>>,
               <<RowStrip(999, 500, 500), RowStrip(500, 0, 999)>>},
        e \in {<<>>, StripDraws(999, 0, 0, 999),
               StripDraws(0, 500, 999, 0) \o StripDraws(500, 500, 0, 999)}}

\* The grid has 10 to 14 rows of 7 to 14 cells, and at least 10 rows of it
\* hold a coloured cell.
IsChallengeGrid(grid) ==
    /\ Len(grid) \in 10..14
    /\ \A r \in 1..Len(grid) : Len(grid[r]) = Len(grid[1]) /\ Len(grid[r]) \in 7..14
    /\ Cardinality({r \in 1..Len(grid) : \E c \in 1..Len(grid[r]) : grid[r][c] # Unlit}) >= 10

\* C22: every grid generateChallengeTarget returns has at least 10 rows with
\* a coloured cell, and after a successful startChallenge a challenge is
\* active and timeLeft is 60 times the number of rows of the new target that
\* hold a coloured cell.
C22_ChallengeBudgetIsAMinuteARow ==
    /\ hist.base = "create" =>
          \A rnd \in ChallengeSources : IsChallengeGrid(generateChallengeTarget(rnd))
    /\ hist.base = "startChallenge" =>
          /\ isChallengeActive /\ targetGrid # None
          /\ mode # "MATRIX" => IsChallengeGrid(Get(targetGrid))
          /\ timeLeft = 60 * Cardinality({r \in 1..Len(Get(targetGrid)) :
                               \E c \in 1..Len(Get(targetGrid)[r]) : Get(targetGrid)[r][c] # Unlit})

\* A challenge was started in TABLE mode on a grid of 14 rows of which 11
\* hold a coloured cell.
C22_Witness ==
    /\ hist.base = "startChallenge" /\ mode = "TABLE"
    /\ Len(Get(targetGrid)) = 14
    /\ timeLeft = 660

\* ----------------------------------------------------------------- scores
\* The colour of cell (r, c) of the grid, unlit where the grid has no such cell.
ColourAt(grid, r, c) ==
    IF r <= Len(grid) /\ c <= Len(grid[r]) THEN grid[r][c] ELSE Unlit

\* The rows of the target that hold a coloured cell and whose every cell is
\* the same in the current grid.
MatchedRows(cur, tgt) ==
    {r \in 1..Len(tgt) :
        /\ \E c \in 1..Len(tgt[r]) : tgt[r][c] # Unlit
        /\ \A c \in 1..Len(tgt[r]) : tgt[r][c] = ColourAt(cur, r, c)}

\* C23: in TABLE and GRID mode calculateScore returns the number of target
\* rows that hold a coloured cell and are the same, cell for cell, in the
\* current grid; rows of the target with no coloured cell are not counted.
C23_TableScoreCountsMatchedRows ==
    (mode \in {"TABLE", "GRID"} /\ currentGrid # None /\ targetGrid # None) =>
        calculateScore(S) =
            Some(Points(Cardinality(MatchedRows(Get(currentGrid), Get(targetGrid)))))

\* The cells (r, c), 0-based, of an 8 by 8 grid that are lit in the current
\* grid, split by what the target holds there.
LitInBoth(cur, tgt) ==
    {rc \in (0..7) \X (0..7) :
        CellAt(cur, rc[1], rc[2]) # Unlit /\ CellAt(tgt, rc[1], rc[2]) # Unlit}
LitInCurrentOnly(cur, tgt) ==
    {rc \in (0..7) \X (0..7) :
        CellAt(cur, rc[1], rc[2]) # Unlit /\ CellAt(tgt, rc[1], rc[2]) = Unlit}

SameColour(cur, tgt) ==
    {rc \in (0..15) \X (0..15) : CellAt(cur, rc[1], rc[2]) = CellAt(tgt, rc[1], rc[2])}

MazeCells == (0..(MazeDim - 1)) \X (0..(MazeDim - 1))

OpenBetween(walls, a, b) ==
    CASE b = <<a[1], a[2] + 1>> -> ~walls[a[1] + 1][a[2] + 1].right /\ ~walls[b[1] + 1][b[2] + 1].left
      [] b = <<a[1], a[2] - 1>> -> ~walls[a[1] + 1][a[2] + 1].left /\ ~walls[b[1] + 1][b[2] + 1].right
      [] b = <<a[1] + 1, a[2]>> -> ~walls[a[1] + 1][a[2] + 1].bottom /\ ~walls[b[1] + 1][b[2] + 1].top
      [] b = <<a[1] - 1, a[2]>> -> ~walls[a[1] + 1][a[2] + 1].top /\ ~walls[b[1] + 1][b[2] + 1].bottom
      [] OTHER -> FALSE

Passages(walls) ==
    { p \in { <<a, b>> : a \in MazeCells, b \in MazeCells } :
        /\ p[2] \in {<<p[1][1], p[1][2] + 1>>, <<p[1][1] + 1, p[1][2]>>}
        /\ OpenBetween(walls, p[1], p[2]) }

\* A wall removed on one side only would be a passage in one direction.
HalfOpen(walls) ==
    \E a \in MazeCells :
        \/ a[2] < MazeDim - 1
           /\ walls[a[1] + 1][a[2] + 1].right # walls[a[1] + 1][a[2] + 2].left
        \/ a[1] < MazeDim - 1
           /\ walls[a[1] + 1][a[2] + 1].bottom # walls[a[1] + 2][a[2] + 1].top

RECURSIVE ReachedFrom(_, _)
ReachedFrom(walls, seen) ==
    LET more == { b \in MazeCells \ seen : \E a \in seen : OpenBetween(walls, a, b) }
    IN  IF more = {} THEN seen ELSE ReachedFrom(walls, seen \cup more)

OpenSides(walls, a) == Cardinality({ b \in MazeCells : OpenBetween(walls, a, b) })

\* C26: the passages of every generated maze form a spanning tree of the
\* cell grid: no wall is open on one side only, there are exactly
\* rows * cols - 1 passages, and every cell is connected to the start cell
\* (so the carve visited every cell and ended).
C26_PassagesFormSpanningTree ==
    (mode = "MAZE" /\ mazeState # None) =>
        LET walls == Get(mazeState).walls
        IN  /\ ~HalfOpen(walls)
            /\ Cardinality(Passages(walls)) = MazeDim * MazeDim - 1
            /\ ReachedFrom(walls, {<<MazeStart, MazeStart>>}) = MazeCells

\* A maze of the New Goal button with a junction: a cell with three passages.
C26_Witness ==
    /\ hist.base = "reset(true)"
    /\ mazeState # None
    /\ \E a \in MazeCells : OpenSides(Get(mazeState).walls, a) >= 3


\* ------------------------------------------------------------------- C27
\* The walls on the outer boundary of the grid that are removed, each as
\* <<row, column, side>>.
OpenBoundary(walls) ==
    { <<0, c, "top">> : c \in { k \in 0..(MazeDim - 1) : ~walls[1][k + 1].top } }
    \cup { <<MazeDim - 1, c, "bottom">> : c \in { k \in 0..(MazeDim - 1) : ~walls[MazeDim][k + 1].bottom } }
    \cup { <<r, 0, "left">> : r \in { k \in 0..(MazeDim - 1) : ~walls[k + 1][1].left } }
    \cup { <<r, MazeDim - 1, "right">> : r \in { k \in 0..(MazeDim - 1) : ~walls[k + 1][MazeDim].right } }

\* The four edge-midpoint cells with their boundary side.
EdgeMidpoints ==
    { <<0, MazeDim \div 2, "top">>, <<MazeDim - 1, MazeDim \div 2, "bottom">>,
      <<MazeDim \div 2, 0, "left">>, <<MazeDim \div 2, MazeDim - 1, "right">> }

\* C27: exactly one wall of the outer boundary of a generated maze is
\* removed; it is the boundary wall of one of the four edge-midpoint cells,
\* and that cell is the maze's exit.
C27_OneExitAtAnEdgeMidpoint ==
    (mode = "MAZE" /\ mazeState # None) =>
        LET maze == Get(mazeState)
        IN  /\ maze.exit # None
            /\ \E e \in EdgeMidpoints :
                   /\ OpenBoundary(maze.walls) = {e}
                   /\ Get(maze.exit) = Pos(e[1], e[2])

\* A maze of the New Goal button whose exit is on the left edge.
C27_Witness ==
    /\ hist.base = "reset(true)"
    /\ mazeState # None
    /\ Get(mazeState).exit = Some(Pos(MazeDim \div 2, 0))
    /\ ~Get(mazeState).walls[(MazeDim \div 2) + 1][1].left


\* ------------------------------------------------------------------- C28
ItemsOfType(items, type) == { i \in 1..Len(items) : items[i].type = type }

ItemPlaces(items) == { <<items[i].r, items[i].c>> : i \in 1..Len(items) }

\* C28: a generated maze holds exactly 4 leaves and 2 carrots, all
\* uncollected, on six different cells, none of them the start cell or the
\* exit cell, and each connected to the start cell by open passages.
C28_SixItemsOffStartAndExit ==
    (mode = "MAZE" /\ mazeState # None /\ hist.steps = 0) =>
        LET maze == Get(mazeState)
            items == maze.items
        IN  /\ Len(items) = 6
            /\ Cardinality(ItemsOfType(items, "leaf")) = 4
            /\ Cardinality(ItemsOfType(items, "carrot")) = 2
            /\ \A i \in 1..Len(items) : ~items[i].collected
            /\ Cardinality(ItemPlaces(items)) = 6
            /\ <<MazeStart, MazeStart>> \notin ItemPlaces(items)
            /\ <<Get(maze.exit).r, Get(maze.exit).c>> \notin ItemPlaces(items)
            /\ ItemPlaces(items) \subseteq ReachedFrom(maze.walls, {<<MazeStart, MazeStart>>})

\* A maze of the New Goal button with items beside the start cell and in
\* the first row, the exit being in the last row.
C28_Witness ==
    /\ hist.base = "reset(true)"
    /\ mazeState # None
    /\ Get(mazeState).exit = Some(Pos(MazeDim - 1, MazeDim \div 2))
    /\ <<MazeStart, MazeStart - 1>> \in ItemPlaces(Get(mazeState).items)
    /\ \E c \in 0..(MazeDim - 1) : <<0, c>> \in ItemPlaces(Get(mazeState).items)


\* ------------------------------------------------------------------- C29
\* The fields of the program state the statement lists.
ProgramFields ==
    {"pc", "currentGrid", "mazeState", "mazeScore", "lastPos", "totalMovements",
     "error", "completionStatus"}

AllUnlit(grid) == \A r \in 1..Len(grid) : \A c \in 1..Len(grid[r]) : grid[r][c] = Unlit

IsGridOf(grid, rows, cols) ==
    Len(grid) = rows /\ \A r \in 1..Len(grid) : Len(grid[r]) = cols

\* The current grid reset() leaves in state s: unlit and of the mode's
\* size, which in TABLE and GRID is the size of the program's first Start
\* (no grid without one).
IsFreshGrid(s, grid) ==
    LET starts == {i \in 1..Len(s.commands) : s.commands[i].type = "START"}
    IN  CASE s.mode = "MATRIX" ->
               grid # None /\ IsGridOf(Get(grid), MatrixDim, MatrixDim) /\ AllUnlit(Get(grid))
          [] s.mode = "PIXEL" ->
               grid # None /\ IsGridOf(Get(grid), PixelDim, PixelDim) /\ AllUnlit(Get(grid))
          [] s.mode = "MAZE" ->
               grid # None /\ IsGridOf(Get(grid), MazeDim, MazeDim) /\ AllUnlit(Get(grid))
          [] OTHER ->
               IF starts = {} THEN grid = None
               ELSE LET first == s.commands[CHOOSE i \in starts : \A j \in starts : i <= j]
                    IN  /\ grid # None
                        /\ IsGridOf(Get(grid), first.rows, first.cols)
                        /\ AllUnlit(Get(grid))

\* C30: reset() gives pc = 0, no error, isRunning false, completionStatus
\* idle, totalMovements 0, lastPos at its initial value and a fresh unlit
\* current grid of the mode's size, and keeps commands, sourceCode, mode,
\* targetGrid, timeLeft, isChallengeActive and isLocked.
C30_ResetKeepsWhatIsLoaded ==
    \A forceNewMaze \in BOOLEAN :
      \A rnd \in Randoms(S, forceNewMaze) :
        LET r == reset(S, forceNewMaze, rnd)
        IN  /\ r.pc = 0 /\ r.error = None /\ ~r.isRunning
            /\ r.completionStatus = "idle" /\ r.totalMovements = 0
            /\ r.lastPos = (IF mode = "PIXEL" THEN Pos(0, 0) ELSE Pos(-1, -1))
            /\ IsFreshGrid(S, r.currentGrid)
            /\ \A f \in {"commands", "sourceCode", "mode", "targetGrid", "timeLeft",
                          "isChallengeActive", "isLocked"} : r[f] = S[f]

\* A challenge under way whose program has painted: reset() has a counter
\* and a grid to clear and challenge fields to keep.
C30_Witness ==
    /\ isChallengeActive /\ timeLeft > 0
    /\ hist.steps >= 1 /\ pc > 0
    /\ currentGrid # None /\ ~AllUnlit(Get(currentGrid))
    /\ \E rnd \in Randoms(S, FALSE) :
          reset(S, FALSE, rnd).pc = 0 /\ reset(S, FALSE, rnd).timeLeft = timeLeft


\* ------------------------------------------------------------------- C31
ItemsAt(items) == [i \in 1..Len(items) |-> <<items[i].r, items[i].c, items[i].type>>]

\* C31: in MAZE mode reset() without a new maze keeps the walls, the exit
\* and the places of the items, and gives back the initial maze: every
\* item uncollected, mazeScore 0, only the start cell visited, and the
\* turtle on the start cell with heading 0.
C31_ResetReturnsMazeToStart ==
    (mode = "MAZE" /\ mazeState # None) =>
        \A rnd \in Randoms(S, FALSE) :
            LET r == reset(S, FALSE, rnd)
                before == Get(mazeState)
                after == Get(r.mazeState)
            IN  /\ after.walls = before.walls
                /\ after.exit = before.exit
                /\ ItemsAt(after.items) = ItemsAt(before.items)
                /\ \A i \in 1..Len(after.items) : ~after.items[i].collected
                /\ r.mazeScore = 0
                /\ after.visited = <<Pos(MazeStart, MazeStart)>>
                /\ after.turtle = [r |-> MazeStart, c |-> MazeStart, dir |-> 0]


\* ------------------------------------------------------------------- C32
\* C32: the program counter stays between 0 and the number of commands in
\* every reachable state, step() never lowers it, and stop() leaves it
\* where it is.
C32_CounterNeverGoesBack ==
    /\ 0 <= pc /\ pc <= Len(commands)
    /\ pre # None => pc >= Get(pre).pc
    /\ stop(S).pc >= pc

\* A step that took the counter from a later line to the end of the program.
C32_Witness ==
    /\ pre # None
    /\ Get(pre).pc > 0
    /\ pc > Get(pre).pc
    /\ pc = Len(commands)


\* ------------------------------------------------------------------- C33
\* The ticks counted since a successful startChallenge, with no other
\* operation in between, and the budget that challenge was given.
TicksSinceStart == hist.steps

Budget == timeBudget(Get(targetGrid))

\* C33: tickTimer changes nothing when no challenge is active; on an active
\* challenge it lowers timeLeft by 1 and changes nothing else, and the tick
\* that finds timeLeft <= 1 sets timeLeft to 0, ends the challenge, locks
\* the store, shows the certificate and clears isRunning. So after a
\* successful startChallenge with budget T the time left is T minus the
\* ticks, the challenge is over exactly when T ticks have passed, and
\* timeLeft is never negative.
C33_CountdownEndsAfterBudgetTicks ==
    LET t == tickTimer(S)
    IN  /\ timeLeft >= 0
        /\ ~isChallengeActive => t = S
        /\ (isChallengeActive /\ timeLeft > 1) => t = [S EXCEPT !.timeLeft = timeLeft - 1]
        /\ (isChallengeActive /\ timeLeft <= 1) =>
               t = [S EXCEPT !.timeLeft = 0, !.isChallengeActive = FALSE, !.isLocked = TRUE,
                             !.showCertificateModal = TRUE, !.isRunning = FALSE]
        /\ hist.base = "startChallenge" =>
               /\ timeLeft = Budget - TicksSinceStart
               /\ isChallengeActive <=> TicksSinceStart < Budget
               /\ ~isChallengeActive => isLocked /\ showCertificateModal /\ ~isRunning

\* The countdown of a started challenge has run out: the tick that ended it
\* was the last of the budget.
C33_Witness ==
    /\ hist.base = "startChallenge"
    /\ TicksSinceStart = Budget /\ Budget >= 60
    /\ timeLeft = 0 /\ ~isChallengeActive /\ isLocked /\ showCertificateModal


\* ------------------------------------------------------------------- C34
\* C34: step() on a program that is not running changes no field of the
\* store (isRunning is written false again): the step just taken from such
\* a state left the store as it was, and so would a step from this state.
C34_StepNeedsRunning ==
    /\ ~isRunning => step(S) = S
    /\ (Stepped /\ ~Before.isRunning) => S = Before

\* step() was called on a freshly loaded program with commands to execute
\* that had not been set running.
C34_Witness ==
    /\ Stepped
    /\ hist.base = "loadProgram"
    /\ ~Before.isRunning
    /\ Before.pc = 0 /\ Len(Before.commands) > 0
    /\ pc = 0


\* ------------------------------------------------------------------- C35
\* C35: in GRID mode a step whose GridColor command fails its bounds check
\* leaves totalMovements, the grid and the last painted position as they
\* were before the command.
C35_FailedGridColorCountsNothing ==
    (/\ SteppedOnPaint("GRID", "GRID_COLOR")
     /\ ~Paintable(GridBefore, GridTarget.r, GridTarget.c, FirstCmd.count)) =>
        /\ error # None
        /\ totalMovements = Before.totalMovements
        /\ currentGrid = Before.currentGrid
        /\ lastPos = Before.lastPos


\* ------------------------------------------------------------------- C36
\* The command stream is the one the loader makes of the source text in
\* the store's mode.
LoadedInItsMode ==
    LET parsed == parseProgram(sourceCode, 0, mode,
                               [error |-> None, commands |-> <<>>, startCmdFound |-> FALSE])
    IN  parsed.error = None /\ commands = parsed.commands

\* A TABLE or GRID program that loads was run and stepped to its last
\* command with no runtime error.
RanToTheEnd ==
    /\ mode \in {"TABLE", "GRID"}
    /\ LoadedInItsMode
    /\ hist.base = "run" /\ Stepped
    /\ Len(commands) > 0 /\ pc = Len(commands)
    /\ error = None

\* C36: when a TABLE or GRID program has run to its last command without a
\* runtime error, the current grid equals cell for cell the grid silent
\* replay derives from the same commands.
C36_SteppedAndSilentAgree ==
    RanToTheEnd => currentGrid = executeCommandsSilently(commands, mode)

\* A GRID program of two paints has run to its end and lit cells of two
\* colours.
C36_Witness ==
    /\ RanToTheEnd /\ mode = "GRID"
    /\ Cardinality({i \in 1..Len(commands) : commands[i].type = "GRID_COLOR"}) >= 2
    /\ currentGrid # None
    /\ Cardinality({Get(currentGrid)[r][c] :
                       r \in 1..Len(Get(currentGrid)), c \in 1..Len(Get(currentGrid)[1])}
                    \ {Unlit}) >= 2


\* ------------------------------------------------------------------- C37
\* C37: in every state reached through startChallenge, stopChallenge,
\* tickTimer, setTargetGrid and reset, the store is not locked while a
\* challenge is active, and an active challenge has at least one second left.
C37_ActiveChallengeIsOpenAndHasTime ==
    /\ ~(isChallengeActive /\ isLocked)
    /\ isChallengeActive => timeLeft >= 1

\* The last second of a challenge that was started after an earlier one
\* had been stopped and had locked the store.
C37_Witness ==
    /\ isChallengeActive /\ ~isLocked /\ timeLeft = 1
    /\ hist.base = "startChallenge" /\ TicksSinceStart = Budget - 1
    /\ lastChallengeTime = Some(Epoch + LOCKOUT_PERIOD)


\* ------------------------------------------------------------------- C38
\* The source lines that carry commands of the loaded program.
CommandLines == {commands[i].lineNumber : i \in 1..Len(commands)}

\* The steps taken since run(), with no other operation in between.
StepsSinceRun == hist.steps

\* C38: after run(), isRunning is false once step() has been called as many
\* times as the program has lines with commands (once for an empty
\* program), and the run has then ended at the last command or on a
\* runtime error.
C38_RunEndsWithinItsLines ==
    hist.base = "run" =>
        /\ isRunning => StepsSinceRun < Max(1, Cardinality(CommandLines))
        /\ (~isRunning /\ StepsSinceRun >= 1) => (pc = Len(commands) \/ error # None)

\* The step that ended a run of three lines was the third after run().
C38_Witness ==
    /\ hist.base = "run" /\ Stepped
    /\ Cardinality(CommandLines) = 3 /\ StepsSinceRun = 3
    /\ Before.isRunning /\ ~isRunning
    /\ pc = Len(commands) /\ error = None


\* ------------------------------------------------------------------- C39
\* The types of the commands the parser produces in a mode.
ModeCommandTypes(m) ==
    CASE m = "TABLE" -> {"START", "COLOR"}
      [] m = "GRID" -> {"START", "GRID_COLOR"}
      [] m = "MAZE" -> {"START", "RUOTA", "MUOVI"}
      [] m = "MATRIX" -> {"START", "MATRIX"}
      [] OTHER -> {"PIXEL_CMD"}

\* C39: after setMode(m) the command stream holds only commands the parser
\* produces in mode m, so the steps that follow execute no command parsed
\* under another mode's grammar.
C39_SetModeLeavesOnlyItsCommands ==
    hist.base = "setMode" =>
        \A i \in 1..Len(commands) : commands[i].type \in ModeCommandTypes(mode)


\* ------------------------------------------------------------------- C40
\* C40: after a successful startChallenge the target grid has the size the
\* mode's scorer reads, 8x8 in MATRIX mode and 16x16 in PIXEL mode, and
\* calculateScore reads no cell outside the target or the current grid.
C40_ChallengeTargetFitsTheScorer ==
    (hist.base = "startChallenge" /\ isChallengeActive) =>
        /\ mode = "MATRIX" => IsGridOf(Get(targetGrid), MatrixDim, MatrixDim)
        /\ mode = "PIXEL" => IsGridOf(Get(targetGrid), PixelDim, PixelDim)
        /\ calculateScore(S) # None

====
